---- MODULE Spec2Model ----
(***************************************************************************)
(* A model of werkhoven/data_browser: the Table / transform framework      *)
(* (libs/data), the in-memory TableCache of the pipelines service, the     *)
(* DataLoader with its schema-inference agent, the /files and              *)
(* /analyses/concentration endpoints and the shared S3 client.             *)
(*                                                                         *)
(* Cells are tagged records [k, v]; text is a sequence of one-character    *)
(* strings, so that stripping, cleaning and casting are computed.          *)
(* A frame (polars DataFrame) is a sequence of columns [name, dtype, vals].*)
(***************************************************************************)
EXTENDS Integers, Sequences, FiniteSets, TLC

VARIABLES
    \* ---- transform framework (BaseTransform.__call__) ----
    tables,      \* heap of Table objects: index = object id, [name, data: frame object id]
    frames,      \* heap of DataFrame objects: index = object id, value = frame
    t_in,        \* the Table object handed to the transform
    t_orig,      \* what t_in looked like before the call (observer's snapshot)
    t_call,      \* record of the last call: transform, outcome, result object, heap sizes before
    t_mods,      \* number of later modifications made to the returned Table
    \* ---- TableCache ----
    cache,       \* dict key -> (table, key, timestamp), kept in insertion order
    max_size,    \* TableCache.max_size
    clock,       \* what time.time() returns next
    c_last,      \* record of the last cache operation: op, key, table, result, cache before
    c_ops,       \* number of cache operations done
    \* ---- TableCache under interleaved calls ----
    th,          \* per thread: its call in progress and position in it
    errors,      \* exceptions raised so far by interleaved calls
    \* ---- DataLoader and the schema-inference agent ----
    l_pc,        \* where the load is: call, read, sample, oracle, format, done, failed
    l_path,      \* the file_path of load_csv; None for load_csv_from_bytes
    l_csv,       \* the CSV content handed to the loader
    l_arg,       \* the column_schemas argument: None or a list
    l_df,        \* the loader's current DataFrame (df, then table.data)
    l_schemas,   \* column_schemas once known: the argument, or the agent's output
    l_i,         \* index of the next transform of format_table
    l_table,     \* the Table returned, None until then
    l_steps,     \* the steps finished so far: name, input, output, outcome
    l_err,       \* the exception that ended the load, "none" otherwise
    ag,          \* the run of datatype_parser: deps.frame and the run's counters
    \* ---- one transform, constructed and called once ----
    s_pc,        \* new, rejected (by its validator), built, done
    s_T,         \* the transform's fields (and the keyword arguments of the call)
    s_in,        \* the data of the Table it is called on
    s_out,       \* what the call gave: the heap after it, status, error, result object
    \* ---- TableCache: how long an entry is kept ----
    r_puts,      \* the puts made so far, in order: key, table, timestamp (observer's record)
    \* ---- the service: /files and /analyses/concentration on the global table_cache ----
    api_key,     \* the cache_key the client got from /files, None before
    api_last,    \* the last request and its answer: status, key, cache before, transform run
    api_puts,    \* number of tables the service has cached so far
    \* ---- the service's S3 client (dependencies.py) ----
    s3_client,   \* the module's _s3_client: None, or a client and whether its bucket check passed
    s3_creds,    \* config.validate_aws_credentials()
    s3_bucket,   \* what head_bucket does at present: ok, or the error it raises
    s3_last,     \* the last call: function, what it returned or raised
    s3_calls     \* number of calls made

vars == <<tables, frames, t_in, t_orig, t_call, t_mods,
          cache, max_size, clock, c_last, c_ops, th, errors,
          l_pc, l_path, l_csv, l_arg, l_df, l_schemas, l_i, l_table, l_steps, l_err, ag,
          s_pc, s_T, s_in, s_out, r_puts, api_key, api_last, api_puts,
          s3_client, s3_creds, s3_bucket, s3_last, s3_calls>>

tvars == <<tables, frames, t_in, t_orig, t_call, t_mods>>
cvars == <<cache, max_size, clock, c_last, c_ops>>
kvars == <<th, errors>>
lvars == <<l_pc, l_path, l_csv, l_arg, l_df, l_schemas, l_i, l_table, l_steps, l_err, ag>>

svars == <<s_pc, s_T, s_in, s_out>>
rvars == <<r_puts>>
avars == <<api_key, api_last, api_puts>>
s3vars == <<s3_client, s3_creds, s3_bucket, s3_last, s3_calls>>

\* what the actions of one component leave alone
notTransform == <<cvars, kvars, lvars, svars, rvars, avars, s3vars>>
notCache == <<tvars, kvars, lvars, svars, rvars, avars, s3vars>>
notConc == <<tvars, max_size, c_last, c_ops, lvars, svars, rvars, avars, s3vars>>
notLoader == <<tvars, cvars, kvars, svars, rvars, avars, s3vars>>
notSingle == <<tvars, cvars, kvars, lvars, rvars, avars, s3vars>>
notService == <<tvars, c_last, c_ops, kvars, lvars, svars, rvars, s3vars>>
notS3 == <<tvars, cvars, kvars, lvars, svars, rvars, avars>>

\* ------------------------------------------------------------------ bounds
MaxRows == 2
MaxMods == 2
MaxCap == 2        \* largest max_size a cache is created with
MaxOps == 3        \* cache operations per behaviour
NumThreads == 2    \* callers running TableCache calls at the same time
MaxCalls == 2      \* calls each of them makes
RequestLimit == 5  \* requests one agent run may make (pydantic_ai's usage limit, scaled)

\* ------------------------------------------------------------------ cells
None == [k |-> "none", v |-> 0]
Null == [k |-> "null", v |-> 0]
StrV(s) == [k |-> "str", v |-> s]
IntV(i) == [k |-> "int", v |-> i]

\* Body applied to the value of v, v being computed once
Bind(v, Body(_)) == CHOOSE y \in {Body(x) : x \in {v}} : TRUE

RECURSIVE SeqsOfLen(_, _)
\* all sequences over S of length exactly n
SeqsOfLen(S, n) ==
    IF n = 0 THEN {<<>>}
    ELSE {Append(s, e) : s \in SeqsOfLen(S, n - 1), e \in S}

\* ------------------------------------------------------------------ text
Whitespace == {" "}
Digits == <<"0", "1", "2", "3", "4", "5", "6", "7", "8", "9">>
IsDigit(c) == \E i \in 1..10 : Digits[i] = c
DigitVal(c) == (CHOOSE i \in 1..10 : Digits[i] = c) - 1

RECURSIVE ParseNat(_)
\* the number a non-empty sequence of digits writes
ParseNat(s) ==
    IF Len(s) = 1 THEN DigitVal(s[1])
    ELSE 10 * ParseNat(SubSeq(s, 1, Len(s) - 1)) + DigitVal(s[Len(s)])

AllDigits(s) == Len(s) > 0 /\ \A i \in 1..Len(s) : IsDigit(s[i])

RECURSIVE LStrip(_)
LStrip(s) == IF Len(s) > 0 /\ s[1] \in Whitespace THEN LStrip(Tail(s)) ELSE s
RECURSIVE RStrip(_)
RStrip(s) ==
    IF Len(s) > 0 /\ s[Len(s)] \in Whitespace THEN RStrip(SubSeq(s, 1, Len(s) - 1)) ELSE s

\* str.strip_chars(): leading and trailing whitespace removed
strip_chars(s) == RStrip(LStrip(s))

\* str.to_lowercase(), on the letters the model writes
Lower(c) ==
    CASE c = "Y" -> "y" [] c = "E" -> "e" [] c = "S" -> "s" [] c = "N" -> "n"
      [] c = "O" -> "o" [] c = "C" -> "c" [] c = "V" -> "v" [] OTHER -> c
to_lowercase(s) == [i \in 1..Len(s) |-> Lower(s[i])]

\* str.replace_all(pattern, ""): a cleaning pattern is a negated character class
\* [^keep]; every character outside `keep` is removed
replace_all(s, pattern) == SelectSeq(s, LAMBDA c : c \in pattern.keep)

\* a string -> Int64 cast accepts an optional minus sign and digits
IsIntText(s) ==
    /\ Len(s) > 0
    /\ IF s[1] = "-" THEN AllDigits(Tail(s)) ELSE AllDigits(s)
IntOfText(s) == IF s[1] = "-" THEN 0 - ParseNat(Tail(s)) ELSE ParseNat(s)

DotIndex(s) == IF \E i \in 1..Len(s) : s[i] = "." THEN CHOOSE i \in 1..Len(s) : s[i] = "." ELSE 0
Unsigned(s) == IF Len(s) > 0 /\ s[1] = "-" THEN Tail(s) ELSE s
RECURSIVE DropTrailingZeros(_)
DropTrailingZeros(s) ==
    IF Len(s) > 0 /\ s[Len(s)] = "0" THEN DropTrailingZeros(SubSeq(s, 1, Len(s) - 1)) ELSE s

\* a string -> Float64 cast accepts an optional minus sign, digits and at most one point
IsFloatText(s) ==
    LET u == Unsigned(s)
        d == DotIndex(u)
    IN  IF d = 0 THEN AllDigits(u)
        ELSE /\ \A i \in 1..Len(u) : i # d => IsDigit(u[i])
             /\ Len(u) > 1

\* a decimal kept exactly: sign, integer part, fraction digits without trailing zeros
FloatV(neg, int, frac) == [k |-> "float", v |-> [neg |-> neg /\ (int # 0 \/ frac # <<>>),
                                                 int |-> int, frac |-> frac]]
FloatOfText(s) ==
    LET u == Unsigned(s)
        d == DotIndex(u)
        ip == IF d = 0 THEN u ELSE SubSeq(u, 1, d - 1)
        fp == IF d = 0 THEN <<>> ELSE SubSeq(u, d + 1, Len(u))
    IN  FloatV(s[1] = "-", IF Len(ip) = 0 THEN 0 ELSE ParseNat(ip), DropTrailingZeros(fp))

BoolV(b) == [k |-> "bool", v |-> b]
DtV(y, mo, d, h, mi, sec) ==
    [k |-> "dt", v |-> [year |-> y, month |-> mo, day |-> d, hour |-> h, minute |-> mi,
                        second |-> sec]]

\* ------------------------------------------------------------------ frames
Height(f) == IF Len(f) = 0 THEN 0 ELSE Len(f[1].vals)
Columns(f) == [i \in 1..Len(f) |-> f[i].name]
ColumnSet(f) == {f[i].name : i \in 1..Len(f)}
Shape(f) == <<Height(f), Len(f)>>
ColIndex(f, c) == CHOOSE i \in 1..Len(f) : f[i].name = c

\* a faulty variant of is_empty: tests the width, so a frame with columns but no row passes
is_empty_no_columns(f) == Len(f) = 0

\* polars DataFrame.is_empty(): height == 0 (a frame without columns has height 0)
is_empty(f) == Height(f) = 0

\* ------------------------------------------------------------------ heap
Heap == [tables |-> tables, frames |-> frames]
DataOf(h, tid) == h.frames[h.tables[tid].data]

\* a faulty variant of model_copy: the transform-specific logic gets the caller's own object
model_copy_alias(h, tid) == [heap |-> h, ref |-> tid]

\* Table.model_copy(deep=True): a new Table object whose data is a new DataFrame
\* object holding the same columns
model_copy(h, tid) ==
    LET fid == Len(h.frames) + 1
        nid == Len(h.tables) + 1
    IN  [heap |-> [frames |-> Append(h.frames, h.frames[h.tables[tid].data]),
                   tables |-> Append(h.tables, [name |-> h.tables[tid].name, data |-> fid])],
         ref |-> nid]

\* `table.data = <new DataFrame>` inside an apply(): rebinds the field of that object
SetData(h, tid, f) ==
    [frames |-> Append(h.frames, f),
     tables |-> [h.tables EXCEPT ![tid].data = Len(h.frames) + 1]]

\* ------------------------------------------------------------------ results of apply()
Ok(f) == [ok |-> TRUE, data |-> f, err |-> "none"]
Err(msg) == [ok |-> FALSE, data |-> <<>>, err |-> msg]

\* polars with_columns(expr.alias(name)): replaces the column of that name, else appends
with_columns(f, col) ==
    IF col.name \in ColumnSet(f)
    THEN [f EXCEPT ![ColIndex(f, col.name)] = col]
    ELSE Append(f, col)

\* polars filter: keeps the rows at which keep[i] holds, in order
KeptRows(keep, n) == SelectSeq([i \in 1..n |-> i], LAMBDA i : keep[i])

TakeRows(f, idx) ==
    [c \in 1..Len(f) |->
        [f[c] EXCEPT !.vals = [j \in 1..Len(idx) |-> f[c].vals[idx[j]]]]]

\* the cell kind a polars dtype stores
KindOf(dtype) ==
    CASE dtype = "Int64" -> "int"
      [] dtype = "Float64" -> "float"
      [] dtype = "Boolean" -> "bool"
      [] dtype = "Datetime" -> "dt"
      [] OTHER -> "str"

Transformed == <<"t", "r", "a", "n", "s", "f", "o", "r", "m", "e", "d">>

\* MockTransform.apply (tests/test_base.py): adds the literal column transform_result
MockTransform_apply(T, f) ==
    Ok(with_columns(f, [name |-> "transform_result", dtype |-> "String",
                        vals |-> [i \in 1..Height(f) |-> StrV(Transformed)]]))

\* FilterTransform.apply: rows whose `column` value is one of `values`
FilterTransform_apply(T, f) ==
    IF T.column \notin ColumnSet(f) THEN Err("ColumnNotFoundError")
    ELSE LET col == f[ColIndex(f, T.column)]
         IN  IF \E v \in T.values : v.k # KindOf(col.dtype)
             THEN Err("InvalidOperationError")
             ELSE Ok(TakeRows(f, KeptRows([i \in 1..Height(f) |-> col.vals[i] \in T.values],
                                          Height(f))))

\* ------------------------------------------------------------------ formatting transforms
\* ColumnSchema(name, data_type, regex_cleaning_pattern, datetime_format,
\* partial_datetime_schema); the last two are None when not given
ColumnSchema(name, data_type, pattern, format, partial) ==
    [name |-> name, data_type |-> data_type, regex_cleaning_pattern |-> pattern,
     datetime_format |-> format, partial_datetime_schema |-> partial]
PartialDatetimeSchema(part, parent) ==
    [k |-> "partial", part |-> part, parent_column_name |-> parent]
DatetimeFormat(tokens) == [k |-> "format", v |-> tokens]

\* the width of a strptime directive
DirectiveWidth(tok) == IF tok = "%Y" THEN 4 ELSE 2
IsDirective(tok) == tok \in {"%Y", "%m", "%d", "%H", "%M", "%S"}

RECURSIVE MatchFormat(_, _)
\* the text against a format, token by token: the fields read, or "no match"
MatchFormat(s, fmt) ==
    IF Len(fmt) = 0 THEN (IF Len(s) = 0 THEN [ok |-> TRUE, f |-> <<>>] ELSE [ok |-> FALSE, f |-> <<>>])
    ELSE IF IsDirective(fmt[1])
    THEN LET w == DirectiveWidth(fmt[1])
         IN  IF Len(s) >= w /\ AllDigits(SubSeq(s, 1, w))
             THEN LET rest == MatchFormat(SubSeq(s, w + 1, Len(s)), Tail(fmt))
                  IN  [ok |-> rest.ok,
                       f |-> <<[d |-> fmt[1], n |-> ParseNat(SubSeq(s, 1, w))]>> \o rest.f]
             ELSE [ok |-> FALSE, f |-> <<>>]
    ELSE IF Len(s) >= 1 /\ s[1] = fmt[1] THEN MatchFormat(Tail(s), Tail(fmt))
    ELSE [ok |-> FALSE, f |-> <<>>]

FieldOf(f, d, default) ==
    IF \E i \in 1..Len(f) : f[i].d = d THEN f[CHOOSE i \in 1..Len(f) : f[i].d = d].n
    ELSE default

IsLeap(y) == (y % 4 = 0 /\ y % 100 # 0) \/ y % 400 = 0
DaysIn(y, mo) ==
    IF mo = 2 THEN (IF IsLeap(y) THEN 29 ELSE 28)
    ELSE IF mo \in {4, 6, 9, 11} THEN 30 ELSE 31
ValidDatetime(y, mo, d, h, mi, sec) ==
    /\ mo \in 1..12 /\ d >= 1 /\ d <= DaysIn(y, mo)
    /\ h \in 0..23 /\ mi \in 0..59 /\ sec \in 0..59

\* the formats str.to_datetime tries when it is given none
InferredFormats == {<<"%Y", "-", "%m", "-", "%d">>}

\* one value through _parse_expr: [ok, v]. A null stays null under every data type.
ParseCell(schema, cell) ==
    IF cell = Null THEN [ok |-> TRUE, v |-> Null]
    ELSE IF schema.data_type = "string"
    THEN [ok |-> TRUE, v |-> StrV(replace_all(cell.v, schema.regex_cleaning_pattern))]
    ELSE IF schema.data_type \in {"float", "integer"}
    THEN LET c == replace_all(cell.v, schema.regex_cleaning_pattern)
         IN  IF c \in {<<>>, <<"-">>} THEN [ok |-> TRUE, v |-> Null]
             ELSE IF schema.data_type = "integer"
             THEN (IF IsIntText(c) THEN [ok |-> TRUE, v |-> IntV(IntOfText(c))]
                   ELSE [ok |-> FALSE, v |-> Null])
             ELSE (IF IsFloatText(c) THEN [ok |-> TRUE, v |-> FloatOfText(c)]
                   ELSE [ok |-> FALSE, v |-> Null])
    ELSE IF schema.data_type = "boolean"
    THEN LET c == replace_all(to_lowercase(cell.v), schema.regex_cleaning_pattern)
             r == CASE c \in {<<"y", "e", "s">>, <<"t", "r", "u", "e">>} -> <<"1">>
                    [] c \in {<<"n", "o">>, <<"f", "a", "l", "s", "e">>} -> <<"0">>
                    [] OTHER -> c
         IN  IF c \in {<<>>, <<"-">>} THEN [ok |-> TRUE, v |-> Null]
             ELSE IF IsIntText(r) THEN [ok |-> TRUE, v |-> BoolV(IntOfText(r) # 0)]
             ELSE [ok |-> FALSE, v |-> Null]
    ELSE LET fmts == IF schema.datetime_format = None THEN InferredFormats
                     ELSE {schema.datetime_format.v}
             hits == {fm \in fmts : MatchFormat(cell.v, fm).ok}
         IN  IF hits = {} THEN [ok |-> FALSE, v |-> Null]
             ELSE LET f == MatchFormat(cell.v, CHOOSE fm \in hits : TRUE).f
                      y == FieldOf(f, "%Y", 1970)
                      mo == FieldOf(f, "%m", 1)
                      d == FieldOf(f, "%d", 1)
                      h == FieldOf(f, "%H", 0)
                      mi == FieldOf(f, "%M", 0)
                      sec == FieldOf(f, "%S", 0)
                  IN  IF ValidDatetime(y, mo, d, h, mi, sec)
                      THEN [ok |-> TRUE, v |-> DtV(y, mo, d, h, mi, sec)]
                      ELSE [ok |-> FALSE, v |-> Null]

\* dtype_map, and String for the string type
DtypeOf(data_type) ==
    CASE data_type = "integer" -> "Int64"
      [] data_type = "float" -> "Float64"
      [] data_type = "boolean" -> "Boolean"
      [] data_type = "datetime" -> "Datetime"
      [] OTHER -> "String"

\* frame.select(pl.all().str.strip_chars()): every column must be a String column
StripAll(f) ==
    [c \in 1..Len(f) |->
        [f[c] EXCEPT !.vals = [i \in 1..Len(f[c].vals) |->
            IF f[c].vals[i] = Null THEN Null ELSE StrV(strip_chars(f[c].vals[i].v))]]]
AllString(f) == \A c \in 1..Len(f) : f[c].dtype = "String"

\* a faulty variant of ColumnSchemaTransform_apply: the cells are stripped and the
\* frame's own columns kept as they come, listed or not
ColumnSchemaTransform_apply_all_columns(T, f) ==
    IF ~AllString(f) THEN Err("Error parsing columns") ELSE Ok(StripAll(f))

\* ColumnSchemaTransform.apply
ColumnSchemaTransform_apply(T, f) ==
    LET cs == T.column_schemas
        schema_cols == {cs[i].name : i \in 1..Len(cs)}
    IN  IF schema_cols \ ColumnSet(f) # {} THEN Err("not in data")
        ELSE IF ~AllString(f) THEN Err("Error parsing columns")
        ELSE IF \E i, j \in 1..Len(cs) : i # j /\ cs[i].name = cs[j].name
        THEN Err("Error parsing columns")
        ELSE Bind(StripAll(f), LAMBDA data :
             Bind([i \in 1..Len(cs) |->
                     [r \in 1..Height(data) |->
                        ParseCell(cs[i], data[ColIndex(data, cs[i].name)].vals[r])]],
                  LAMBDA parsed :
                  IF \E i \in 1..Len(cs) : \E r \in 1..Height(data) : ~parsed[i][r].ok
                  THEN Err("Error parsing columns")
                  ELSE Ok([i \in 1..Len(cs) |->
                             [name |-> cs[i].name, dtype |-> DtypeOf(cs[i].data_type),
                              vals |-> [r \in 1..Height(data) |-> parsed[i][r].v]]])))

\* the order of first appearance: dict keys keep their insertion order
RECURSIVE Distinct(_)
Distinct(q) ==
    IF Len(q) = 0 THEN <<>>
    ELSE LET d == Distinct(SubSeq(q, 1, Len(q) - 1))
         IN  IF \E i \in 1..Len(d) : d[i] = q[Len(q)] THEN d ELSE Append(d, q[Len(q)])

\* col_groups[parent]: the parts named for `parent` in order of first appearance,
\* each with the column of the last schema that names it
PartSchemas(cs) == SelectSeq(cs, LAMBDA x : x.partial_datetime_schema # None)
Parents(cs) ==
    Distinct([i \in 1..Len(PartSchemas(cs)) |->
                PartSchemas(cs)[i].partial_datetime_schema.parent_column_name])
PartsOf(cs, parent) ==
    LET mine == SelectSeq(PartSchemas(cs),
                          LAMBDA x : x.partial_datetime_schema.parent_column_name = parent)
        parts == Distinct([i \in 1..Len(mine) |-> mine[i].partial_datetime_schema.part])
        last(pt) == CHOOSE i \in 1..Len(mine) :
                        /\ mine[i].partial_datetime_schema.part = pt
                        /\ \A j \in (i + 1)..Len(mine) :
                               mine[j].partial_datetime_schema.part # pt
    IN  [i \in 1..Len(parts) |-> [part |-> parts[i], column |-> mine[last(parts[i])].name]]

HasPart(pd, pt) == \E i \in 1..Len(pd) : pd[i].part = pt
ColumnOfPart(pd, pt) == pd[CHOOSE i \in 1..Len(pd) : pd[i].part = pt].column

IntegerDtypes == {"Int8", "Int16", "Int32", "Int64", "UInt8", "UInt16", "UInt32", "UInt64"}

\* _datetime_part_expr evaluated on the frame: [ok, vals]. `column` and `default`
\* are cells (None when absent). fill_null(None) is rejected by polars when the
\* expression is built; .str on a column that is not a String fails when it runs.
datetime_part_expr(f, column, default) ==
    LET lit == [ok |-> TRUE, vals |-> [r \in 1..Height(f) |-> IF default = None THEN Null ELSE default]]
    IN  IF column = None THEN lit
        ELSE IF column.v \notin ColumnSet(f) THEN lit
        ELSE LET col == f[ColIndex(f, column.v)]
             IN  IF col.dtype \in IntegerDtypes THEN [ok |-> TRUE, vals |-> col.vals]
                 ELSE IF default = None \/ col.dtype # "String" THEN [ok |-> FALSE, vals |-> <<>>]
                 ELSE [ok |-> TRUE,
                       vals |-> [r \in 1..Height(f) |->
                                   IF col.vals[r] # Null /\ IsIntText(col.vals[r].v)
                                   THEN IntV(IntOfText(col.vals[r].v)) ELSE default]]

\* one group of fuse_partial_datetime_columns (one turn of its loop)
FuseGroup(f, parent, pd) ==
    IF ~HasPart(pd, "year") THEN Err("Missing required year part")
    ELSE LET part(pt, default) ==
                 datetime_part_expr(f, IF HasPart(pd, pt) THEN StrV(ColumnOfPart(pd, pt)) ELSE None,
                                    default)
             dropped == {pd[i].column : i \in 1..Len(pd)}
         IN  Bind(<<part("year", None), part("month", IntV(1)), part("day", IntV(1)),
                    part("hour", IntV(0)), part("minute", IntV(0)), part("second", IntV(0))>>,
                  LAMBDA p :
                  LET null(r) == \E i \in 1..6 : p[i].vals[r] = Null
                      valid(r) == ValidDatetime(p[1].vals[r].v, p[2].vals[r].v, p[3].vals[r].v,
                                                p[4].vals[r].v, p[5].vals[r].v, p[6].vals[r].v)
                  IN  IF \E i \in 1..6 : ~p[i].ok THEN Err("datetime part expression")
                      ELSE IF \E r \in 1..Height(f) : ~null(r) /\ ~valid(r)
                      THEN Err("Invalid date components")
                      ELSE Bind(with_columns(f,
                                    [name |-> parent, dtype |-> "Datetime",
                                     vals |-> [r \in 1..Height(f) |->
                                                 IF null(r) THEN Null
                                                 ELSE DtV(p[1].vals[r].v, p[2].vals[r].v,
                                                          p[3].vals[r].v, p[4].vals[r].v,
                                                          p[5].vals[r].v, p[6].vals[r].v)]]),
                                LAMBDA g :
                                IF dropped \ ColumnSet(g) # {} THEN Err("ColumnNotFoundError")
                                ELSE Ok(SelectSeq(g, LAMBDA c : c.name \notin dropped))))

RECURSIVE FuseFrom(_, _, _, _)
FuseFrom(f, cs, parents, i) ==
    IF i > Len(parents) THEN Ok(f)
    ELSE Bind(FuseGroup(f, parents[i], PartsOf(cs, parents[i])),
              LAMBDA r : IF r.ok THEN FuseFrom(r.data, cs, parents, i + 1) ELSE r)

\* FusePartialDatetimeColumnsTransform.fuse_partial_datetime_columns
fuse_partial_datetime_columns(f, cs) == FuseFrom(f, cs, Parents(cs), 1)

\* FusePartialDatetimeColumnsTransform.apply
FusePartialDatetimeColumnsTransform_apply(T, f) ==
    fuse_partial_datetime_columns(f, T.column_schemas)

\* _calculate_uniqueness / _identify_categorical_columns for one column: n_unique
\* counts null as a value, total_count counts the values that are not null
IsCategorical(T, col) ==
    LET total_count == Cardinality({r \in 1..Len(col.vals) : col.vals[r] # Null})
        unique_count == Cardinality({col.vals[r] : r \in 1..Len(col.vals)})
    IN  /\ total_count # 0
        /\ T.min_unique <= unique_count /\ unique_count <= T.max_unique
        /\ unique_count * T.uniqueness_threshold.den <= T.uniqueness_threshold.num * total_count

\* StringToCategoricalTransform.apply
StringToCategoricalTransform_apply(T, f) ==
    Ok([c \in 1..Len(f) |->
          IF f[c].dtype = "String" /\ IsCategorical(T, f[c])
          THEN [f[c] EXCEPT !.dtype = "Categorical"] ELSE f[c]])

\* the column names of the model in the order Python's sorted() gives them
NameOrder == <<"Date", "flag", "ghost", "id", "mo", "name", "qty", "transform_result", "yr">>
Sorted(q) == SelectSeq(NameOrder, LAMBDA n : \E i \in 1..Len(q) : q[i] = n)

ColumnsOfType(f, dtypes) == Columns(SelectSeq(f, LAMBDA c : c.dtype \in dtypes))
\* Table.datetime_columns, categorical_columns, numeric_columns
datetime_columns(f) == ColumnsOfType(f, {"Datetime"})
categorical_columns(f) == ColumnsOfType(f, {"Categorical"}) \o ColumnsOfType(f, {"String"})
numeric_columns(f) == ColumnsOfType(f, {"Float64"}) \o ColumnsOfType(f, {"Int64"})

\* a faulty variant of DefaultColumnSortingTransform_apply: the categorical columns
\* are sorted apart from the text columns
DefaultColumnSortingTransform_apply_by_dtype(T, f) ==
    Bind(Sorted(datetime_columns(f)) \o Sorted(ColumnsOfType(f, {"Categorical"}))
         \o Sorted(ColumnsOfType(f, {"String"})) \o Sorted(numeric_columns(f)),
         LAMBDA order : Ok([i \in 1..Len(order) |-> f[ColIndex(f, order[i])]]))

\* DefaultColumnSortingTransform.apply: select(order) keeps the listed columns only
DefaultColumnSortingTransform_apply(T, f) ==
    Bind(Sorted(datetime_columns(f)) \o Sorted(categorical_columns(f))
         \o Sorted(numeric_columns(f)),
         LAMBDA order : Ok([i \in 1..Len(order) |-> f[ColIndex(f, order[i])]]))

\* ------------------------------------------------------------------ standard transforms
RECURSIVE CallOn(_, _, _)

set(q) == {q[i] : i \in 1..Len(q)}

\* Table.dimension_columns, validate_dimensions, validate_measures (TRUE: no error)
dimension_columns(f) == categorical_columns(f) \o datetime_columns(f)
validate_dimensions(f, dimensions) == set(dimensions) \ set(dimension_columns(f)) = {}
validate_measures(f, measures) == set(measures) \ set(numeric_columns(f)) = {}

\* a quantile break, kept exactly: num / den
Frac(num, den) == [num |-> num, den |-> den]

\* a faulty variant of validate_breaks: the range of the breaks is not looked at
validate_breaks_count_only(breaks, labels) == Len(breaks) = Len(labels) - 1

\* QuantileLabelTransform.validate_breaks (TRUE: the object is constructed). The
\* `raise ValidationError(<str>)` of either branch ends the construction with an
\* exception (pydantic's ValidationError has no such constructor: a TypeError).
validate_breaks(breaks, labels) ==
    /\ ~(Len(breaks) # Len(labels) - 1)
    /\ \A i \in 1..Len(breaks) : 0 <= breaks[i].num /\ breaks[i].num <= breaks[i].den

\* the row's values in the columns `by`
KeyOf(f, by, i) == [j \in 1..Len(by) |-> f[ColIndex(f, by[j])].vals[i]]

\* the non-null values of `column` in the partition of row i, ascending
PartitionValues(f, by, column, i) ==
    Bind(SelectSeq([r \in 1..Height(f) |-> r],
                   LAMBDA r : /\ KeyOf(f, by, r) = KeyOf(f, by, i)
                              /\ f[ColIndex(f, column)].vals[r] # Null),
         LAMBDA rs : SortSeq([j \in 1..Len(rs) |-> f[ColIndex(f, column)].vals[rs[j]]],
                             LAMBDA a, b : a.v < b.v))

\* a faulty variant of quantile: the quantile at 1 - b
quantile_complement(s, b) ==
    LET lo == ((Len(s) - 1) * (b.den - b.num)) \div b.den
        rest == (Len(s) - 1) * (b.den - b.num) - lo * b.den
    IN  s[lo + 1].v * b.den + (IF rest = 0 THEN 0 ELSE rest * (s[lo + 2].v - s[lo + 1].v))

\* Series.quantile(b, interpolation="linear") of the ascending values s, times b.den
quantile(s, b) ==
    LET lo == ((Len(s) - 1) * b.num) \div b.den
        rest == (Len(s) - 1) * b.num - lo * b.den
    IN  s[lo + 1].v * b.den + (IF rest = 0 THEN 0 ELSE rest * (s[lo + 2].v - s[lo + 1].v))

\* qcut(breaks, labels): bins closed on the right, so a value equal to a break
\* belongs to the bin below it; a null stays null
qcut(T, f, i) ==
    Bind(PartitionValues(f, T.partition_by, T.column, i), LAMBDA s :
         IF f[ColIndex(f, T.column)].vals[i] = Null THEN Null
         ELSE StrV(T.labels[1 + Cardinality({j \in 1..Len(T.breaks) :
                      quantile(s, T.breaks[j])
                          < f[ColIndex(f, T.column)].vals[i].v * T.breaks[j].den})]))

\* qcut without allow_duplicates: two breaks at the same value are an error
DuplicateBreaks(T, f) ==
    \E i \in 1..Height(f) : \E j, k \in 1..Len(T.breaks) :
        /\ j < k
        /\ Len(PartitionValues(f, T.partition_by, T.column, i)) > 0
        /\ quantile(PartitionValues(f, T.partition_by, T.column, i), T.breaks[j]) * T.breaks[k].den
             = quantile(PartitionValues(f, T.partition_by, T.column, i), T.breaks[k]) * T.breaks[j].den

QuantileLabelTransform(partition_by, labels, breaks, column, alias) ==
    [cls |-> "QuantileLabelTransform", partition_by |-> partition_by, labels |-> labels,
     breaks |-> breaks, column |-> column, alias |-> alias]

\* QuantileLabelTransform.apply
QuantileLabelTransform_apply(T, f) ==
    IF ~validate_measures(f, <<T.column>>) THEN Err("ValueError: Measure")
    ELSE IF ~validate_dimensions(f, T.partition_by) THEN Err("ValueError: Dimension")
    ELSE IF DuplicateBreaks(T, f) THEN Err("DuplicateError")
    ELSE Ok(with_columns(f, [name |-> T.alias, dtype |-> "Categorical",
                             vals |-> [i \in 1..Height(f) |-> qcut(T, f, i)]]))

\* pl.sum(column) over the rows `rs`: nulls are skipped, no value sums to 0
RECURSIVE sum(_, _)
sum(vals, rs) ==
    IF rs = {} THEN 0
    ELSE LET r == CHOOSE x \in rs : TRUE
         IN  (IF vals[r] = Null THEN 0 ELSE vals[r].v) + sum(vals, rs \ {r})

\* group_by(...) keeps no order of the groups: first seen first, or the reverse
Groups(f, by, reversed) ==
    Bind(Distinct([i \in 1..Height(f) |-> KeyOf(f, by, i)]), LAMBDA g :
         IF reversed THEN [i \in 1..Len(g) |-> g[Len(g) + 1 - i]] ELSE g)

SumTransform(group_by, columns, reversed) ==
    [cls |-> "SumTransform", group_by |-> group_by, columns |-> columns,
     reversed |-> reversed]

\* SumTransform.apply: one row per group, the group's columns and the sums
SumTransform_apply(T, f) ==
    IF ~validate_measures(f, T.columns) THEN Err("ValueError: Measure")
    ELSE IF ~validate_dimensions(f, T.group_by) THEN Err("ValueError: Dimension")
    ELSE IF Len(T.group_by) = 0
    THEN Ok([c \in 1..Len(T.columns) |->
               [name |-> T.columns[c], dtype |-> f[ColIndex(f, T.columns[c])].dtype,
                vals |-> <<IntV(sum(f[ColIndex(f, T.columns[c])].vals, 1..Height(f)))>>]])
    ELSE Bind(Groups(f, T.group_by, T.reversed), LAMBDA g :
         Ok([c \in 1..Len(T.group_by) |->
               [name |-> T.group_by[c], dtype |-> f[ColIndex(f, T.group_by[c])].dtype,
                vals |-> [r \in 1..Len(g) |-> g[r][c]]]]
            \o [c \in 1..Len(T.columns) |->
               [name |-> T.columns[c], dtype |-> f[ColIndex(f, T.columns[c])].dtype,
                vals |-> [r \in 1..Len(g) |->
                    IntV(sum(f[ColIndex(f, T.columns[c])].vals,
                             {i \in 1..Height(f) : KeyOf(f, T.group_by, i) = g[r]}))]]]))

\* dt.strftime("%Y-%m-%d"), on the days the model writes
strftime(c) ==
    IF c.k = "null" THEN Null
    ELSE StrV(CASE c.v.day = 1 -> "2024-01-01" [] c.v.day = 2 -> "2024-01-02"
                [] OTHER -> "2024-01-03")

PivotTransform(on, index, values) ==
    [cls |-> "PivotTransform", on |-> on, index |-> index, values |-> values]

\* DataFrame.pivot(index, on, values) with one column each: a row per index value
\* and a column per `on` value, both in order of first appearance; the column is
\* named by the `on` value; two values for one cell are an error
pivot(f, index, on, values) ==
    LET iv == Distinct(f[ColIndex(f, index)].vals)
        ov == Distinct(f[ColIndex(f, on)].vals)
        at(i, o) == {r \in 1..Height(f) : /\ f[ColIndex(f, index)].vals[r] = i
                                         /\ f[ColIndex(f, on)].vals[r] = o}
    IN  IF \E i \in 1..Len(iv) : \E o \in 1..Len(ov) : Cardinality(at(iv[i], ov[o])) > 1
        THEN Err("ComputeError")
        ELSE Ok(<<[name |-> index, dtype |-> f[ColIndex(f, index)].dtype, vals |-> iv]>>
                \o [o \in 1..Len(ov) |->
                     [name |-> IF ov[o].k = "null" THEN "null" ELSE ov[o].v,
                      dtype |-> f[ColIndex(f, values)].dtype,
                      vals |-> [i \in 1..Len(iv) |->
                                  IF at(iv[i], ov[o]) = {} THEN Null
                                  ELSE f[ColIndex(f, values)].vals[
                                           CHOOSE r \in at(iv[i], ov[o]) : TRUE]]]])

\* PivotTransform.apply: a Datetime column pivoted on is first written as its day
PivotTransform_apply(T, f) ==
    IF ~validate_dimensions(f, T.index \o T.on) THEN Err("ValueError: Dimension")
    ELSE IF ~validate_measures(f, T.values) THEN Err("ValueError: Measure")
    ELSE pivot([c \in 1..Len(f) |->
                  IF f[c].name \in set(T.on) /\ f[c].name \in set(datetime_columns(f))
                  THEN [f[c] EXCEPT !.dtype = "String",
                                    !.vals = [r \in 1..Height(f) |-> strftime(f[c].vals[r])]]
                  ELSE f[c]],
               T.index[1], T.on[1], T.values[1])

\* pl.concat([a, b], how="diagonal_relaxed"): the columns of both by name, a's
\* first; the rows of a, then those of b; null where a frame lacks the column;
\* columns of two dtypes take the wider one (Categorical and String: String)
concat(a, b) ==
    LET names == Columns(a) \o SelectSeq(Columns(b), LAMBDA n : n \notin ColumnSet(a))
        col(x, n) == IF n \in ColumnSet(x) THEN x[ColIndex(x, n)].vals
                     ELSE [r \in 1..Height(x) |-> Null]
        dtype(n) == IF n \notin ColumnSet(a) THEN b[ColIndex(b, n)].dtype
                    ELSE IF n \notin ColumnSet(b) THEN a[ColIndex(a, n)].dtype
                    ELSE IF a[ColIndex(a, n)].dtype = b[ColIndex(b, n)].dtype
                    THEN a[ColIndex(a, n)].dtype
                    ELSE "String"
    IN  [c \in 1..Len(names) |->
           [name |-> names[c], dtype |-> dtype(names[c]),
            vals |-> col(a, names[c]) \o col(b, names[c])]]

\* VerticalConcatenateTransform.apply
VerticalConcatenateTransform_apply(T, f) == Ok(concat(f, T.other))

\* a faulty variant of sort: the rows stay as they were concatenated
sort_not_at_all(f, column) == f

\* the labels of the model in the order of their code points
LabelOrder == <<"Top 10%", "Top 20%", "Top 50%", "Total">>
\* DataFrame.sort(column, descending=False) on a text column: nulls first
sort(f, column) ==
    LET vals == f[ColIndex(f, column)].vals
        rank(c) == IF c.k = "null" THEN 0 ELSE CHOOSE k \in 1..Len(LabelOrder) : LabelOrder[k] = c.v
    IN  TakeRows(f, SortSeq([r \in 1..Height(f) |-> r],
                            LAMBDA x, y : rank(vals[x]) < rank(vals[y])))

\* the result r handed to the next transform, an error carried along
Then(r, T) == Bind(r, LAMBDA x : IF x.ok THEN CallOn(T, "table", x.data) ELSE x)

\* ConcentrationAnalysisTransform.apply, lines 161-176: one turn of the loop
tmp_table(T, f, j) ==
    IF ~validate_breaks(<<T.breaks[j]>>, <<"Below", T.labels[j]>>) THEN Err("TypeError")
    ELSE Then(Then(Then(
            CallOn(QuantileLabelTransform(T.by, <<"Below", T.labels[j]>>, <<T.breaks[j]>>,
                                          T.on, T.output_column), "table", f),
            [cls |-> "FilterTransform", column |-> T.output_column,
             values |-> {StrV(T.labels[j])}]),
            SumTransform(T.by \o <<T.output_column>>, <<T.on>>, T.reversed)),
            PivotTransform(T.by, <<T.output_column>>, <<T.on>>))

\* a faulty variant of tmp_tables: zip(breaks, labels, strict=True), which
\* raises on lists of two lengths
RECURSIVE tmp_tables_strict(_, _, _)
tmp_tables_strict(T, f, j) ==
    IF Len(T.breaks) # Len(T.labels) THEN Err("ValueError: zip")
    ELSE IF j > Len(T.breaks) THEN Ok(<<>>)
    ELSE Bind(tmp_table(T, f, j), LAMBDA r :
         IF ~r.ok THEN r
         ELSE Bind(tmp_tables_strict(T, f, j + 1), LAMBDA rest :
              IF rest.ok THEN Ok(<<r.data>> \o rest.data) ELSE rest))

\* lines 159-176: the loop over zip(breaks, labels), ended by the first exception
RECURSIVE tmp_tables(_, _, _)
tmp_tables(T, f, j) ==
    IF j > Len(T.breaks) \/ j > Len(T.labels) THEN Ok(<<>>)
    ELSE Bind(tmp_table(T, f, j), LAMBDA r :
         IF ~r.ok THEN r
         ELSE Bind(tmp_tables(T, f, j + 1), LAMBDA rest :
              IF rest.ok THEN Ok(<<r.data>> \o rest.data) ELSE rest))

\* lines 182-189: the 'Total' row
sum_total(T, f) ==
    Bind(CallOn(SumTransform(T.by, <<T.on>>, T.reversed), "table", f), LAMBDA r :
         IF ~r.ok THEN r
         ELSE CallOn(PivotTransform(T.by, <<T.output_column>>, <<T.on>>), "table",
                     with_columns(r.data, [name |-> T.output_column, dtype |-> "String",
                                           vals |-> [i \in 1..Height(r.data) |->
                                                       StrV("Total")]])))

\* lines 192-197: table = transform(table), transform by transform
RECURSIVE concat_all(_, _, _)
concat_all(r, others, i) ==
    Bind(r, LAMBDA x :
         IF i > Len(others) \/ ~x.ok THEN x
         ELSE concat_all(CallOn([cls |-> "VerticalConcatenateTransform", other |-> others[i]],
                                "table", x.data), others, i + 1))

\* a faulty variant of ConcentrationAnalysisTransform_apply: the loop runs first,
\* the measure and the dimensions are looked at after it
ConcentrationAnalysisTransform_apply_late(T, f) ==
    Bind(tmp_tables(T, f, 1), LAMBDA tmp :
         IF ~tmp.ok THEN tmp
         ELSE IF ~validate_measures(f, <<T.on>>) THEN Err("ValueError: Measure")
         ELSE IF ~validate_dimensions(f, T.by) THEN Err("ValueError: Dimension")
         ELSE Ok(f))

\* a faulty variant of ConcentrationAnalysisTransform_apply: without the early
\* return of line 178 the 'Total' row is computed and returned
ConcentrationAnalysisTransform_apply_always_total(T, f) ==
    IF ~validate_measures(f, <<T.on>>) THEN Err("ValueError: Measure")
    ELSE IF ~validate_dimensions(f, T.by) THEN Err("ValueError: Dimension")
    ELSE Bind(tmp_tables(T, f, 1), LAMBDA tmp :
         IF ~tmp.ok THEN tmp
         ELSE Bind(sum_total(T, f), LAMBDA total :
              IF ~total.ok THEN total
              ELSE Bind(concat_all(Ok((tmp.data \o <<total.data>>)[1]),
                                   Tail(tmp.data \o <<total.data>>), 1),
                        LAMBDA r : IF r.ok THEN Ok(sort(r.data, T.output_column)) ELSE r)))

\* ConcentrationAnalysisTransform.apply; labels, breaks and output_column are the
\* keyword arguments of the call
ConcentrationAnalysisTransform_apply(T, f) ==
    IF ~validate_measures(f, <<T.on>>) THEN Err("ValueError: Measure")
    ELSE IF ~validate_dimensions(f, T.by) THEN Err("ValueError: Dimension")
    ELSE Bind(tmp_tables(T, f, 1), LAMBDA tmp :
         IF ~tmp.ok THEN tmp
         ELSE IF tmp.data = <<>> THEN Ok(f)
         ELSE Bind(sum_total(T, f), LAMBDA total :
              IF ~total.ok THEN total
              ELSE Bind(concat_all(Ok(tmp.data[1]), Tail(tmp.data) \o <<total.data>>, 1),
                        LAMBDA r : IF r.ok THEN Ok(sort(r.data, T.output_column)) ELSE r)))

\* the transform-specific logic, by class
Apply(T, f) ==
    CASE T.cls = "MockTransform" -> MockTransform_apply(T, f)
      [] T.cls = "FilterTransform" -> FilterTransform_apply(T, f)
      [] T.cls = "ColumnSchemaTransform" -> ColumnSchemaTransform_apply(T, f)
      [] T.cls = "FusePartialDatetimeColumnsTransform" ->
            FusePartialDatetimeColumnsTransform_apply(T, f)
      [] T.cls = "StringToCategoricalTransform" -> StringToCategoricalTransform_apply(T, f)
      [] T.cls = "DefaultColumnSortingTransform" -> DefaultColumnSortingTransform_apply(T, f)
      [] T.cls = "QuantileLabelTransform" -> QuantileLabelTransform_apply(T, f)
      [] T.cls = "SumTransform" -> SumTransform_apply(T, f)
      [] T.cls = "PivotTransform" -> PivotTransform_apply(T, f)
      [] T.cls = "VerticalConcatenateTransform" -> VerticalConcatenateTransform_apply(T, f)
      [] T.cls = "ConcentrationAnalysisTransform" ->
            ConcentrationAnalysisTransform_apply(T, f)

PreconditionError == "Cannot transform empty dataframe"

\* BaseTransform.__call__: the empty check, then apply() on a deep copy.
\* Every apply() of the repository ends in `table.data = ...; return table` or
\* `return table`, so the result is the object apply() was given.
BaseTransform_call(T, h, tid) ==
    IF is_empty(DataOf(h, tid))
    THEN [heap |-> h, status |-> "error", err |-> PreconditionError, result |-> 0]
    ELSE Bind(model_copy(h, tid), LAMBDA cp :
         Bind(DataOf(cp.heap, cp.ref), LAMBDA data :
         Bind(Apply(T, data), LAMBDA r :
              IF r.ok
              THEN [heap |-> SetData(cp.heap, cp.ref, r.data), status |-> "ok",
                    err |-> "none", result |-> cp.ref]
              ELSE [heap |-> cp.heap, status |-> "error", err |-> r.err, result |-> 0])))

\* ------------------------------------------------------------------ the transform harness
IdVals == {IntV(1), IntV(2)}
NameVals == {StrV(<<"a">>), StrV(<<"b">>)}

IdCols == {[name |-> "id", dtype |-> "Int64", vals |-> v] :
              v \in UNION {SeqsOfLen(IdVals, n) : n \in 0..MaxRows}}
NameCols == {[name |-> "name", dtype |-> "String", vals |-> v] :
              v \in UNION {SeqsOfLen(NameVals, n) : n \in 0..MaxRows}}

\* the input frames: no column, one column, two columns in either order; 0..MaxRows rows
SameHeightPairs == {p \in IdCols \X NameCols : Len(p[1].vals) = Len(p[2].vals)}

InputFrames ==
    {<<>>} \cup {<<c>> : c \in IdCols \cup NameCols}
    \cup {<<p[1], p[2]>> : p \in SameHeightPairs}
    \cup {<<p[2], p[1]>> : p \in SameHeightPairs}

Transforms ==
    {[cls |-> "MockTransform", column |-> "none", values |-> {}]}
    \cup {[cls |-> "FilterTransform", column |-> c, values |-> vs] :
            c \in {"id", "name", "missing"},
            vs \in {{}, {IntV(1)}, {StrV(<<"a">>)}}}

NoCall == [T |-> [cls |-> "none", column |-> "none", values |-> {}],
           status |-> "none", err |-> "none", result |-> 0, ntables |-> 0, nframes |-> 0]

InitTransform ==
    /\ \E f \in InputFrames :
        /\ frames = <<f>>
        /\ t_orig = [name |-> "test_table", data |-> f]
    /\ tables = <<[name |-> "test_table", data |-> 1]>>
    /\ t_in = 1
    /\ t_call = NoCall
    /\ t_mods = 0

\* transform(table): one call of a configured transform on the caller's Table
Call ==
    /\ t_call.status = "none"
    /\ \E T \in Transforms :
        LET r == BaseTransform_call(T, Heap, t_in)
        IN  /\ tables' = r.heap.tables
            /\ frames' = r.heap.frames
            /\ t_call' = [T |-> T, status |-> r.status, err |-> r.err, result |-> r.result,
                          ntables |-> Len(tables), nframes |-> Len(frames)]
    /\ UNCHANGED <<t_in, t_orig, t_mods, notTransform>>

\* the caller later modifies the returned Table: renames it, rebinds its data, or
\* changes its DataFrame object in place (polars drop_in_place of the first column)
ModifyResult ==
    /\ t_call.status = "ok"
    /\ t_mods < MaxMods
    /\ LET r == t_call.result
           fid == tables[r].data
       IN  \/ /\ tables' = [tables EXCEPT ![r].name = "renamed"]
              /\ frames' = frames
           \/ /\ tables' = SetData(Heap, r, <<>>).tables
              /\ frames' = SetData(Heap, r, <<>>).frames
           \/ /\ Len(frames[fid]) > 0
              /\ frames' = [frames EXCEPT ![fid] = Tail(frames[fid])]
              /\ tables' = tables
    /\ t_mods' = t_mods + 1
    /\ UNCHANGED <<t_in, t_orig, t_call, notTransform>>

NextTransform == Call \/ ModifyResult

\* ------------------------------------------------------------------ TableCache
TokenBytes == 6    \* secrets.token_hex(6)

HexDigits == <<"0", "1", "2", "3", "4", "5", "6", "7", "8", "9", "a", "b", "c", "d", "e", "f">>
HexChars == {HexDigits[i] : i \in 1..16}

RECURSIVE token_hex(_)
\* secrets.token_hex: two hexadecimal digits per random byte
token_hex(bytes) ==
    IF Len(bytes) = 0 THEN <<>>
    ELSE <<HexDigits[(bytes[1] \div 16) + 1], HexDigits[(bytes[1] % 16) + 1]>>
         \o token_hex(Tail(bytes))

\* the random bytes the model draws: all bytes 0x00, or all bytes 0xab
RandomTokens == {[i \in 1..TokenBytes |-> b] : b \in {0, 171}}

\* TableCache.generate_key: f"{table.name}:{secrets.token_hex(6)}"
generate_key(table, bytes) == table.name \o <<":">> \o token_hex(bytes)

Keys(c) == {c[i].key : i \in 1..Len(c)}
KeyIndex(c, key) == CHOOSE i \in 1..Len(c) : c[i].key = key

\* min(self.cache.keys(), key=lambda k: self.cache[k][2]): the first key, in the
\* dict's iteration order, among those with the smallest timestamp
oldest_index(c) ==
    CHOOSE i \in 1..Len(c) :
        /\ \A m \in 1..Len(c) : c[i].ts <= c[m].ts
        /\ \A m \in 1..(i - 1) : c[m].ts > c[i].ts

\* TableCache._evict_oldest
evict_oldest(c) ==
    IF Len(c) = 0 THEN c
    ELSE LET j == oldest_index(c)
         IN  SubSeq(c, 1, j - 1) \o SubSeq(c, j + 1, Len(c))

\* self.cache[key] = value: an existing key keeps its place in the dict
dict_set(c, e) ==
    IF e.key \in Keys(c) THEN [c EXCEPT ![KeyIndex(c, e.key)] = e] ELSE Append(c, e)

\* TableCache.put. `key` is None or StrV(key); `bytes` are the random bytes
\* generate_key would draw, `ts` is time.time(); `n` numbers the puts (an observer's
\* count, unused by the code)
put(c, cap, table, key, bytes, ts, n) ==
    LET k == IF key = None THEN generate_key(table, bytes) ELSE key.v
        c1 == IF Len(c) >= cap THEN evict_oldest(c) ELSE c
    IN  [cache |-> dict_set(c1, [key |-> k, table |-> table, ts |-> ts, n |-> n]), ret |-> k]

\* a faulty variant of get: a hit removes the entry (pop instead of lookup)
get_pops(c, key) ==
    IF key \in Keys(c)
    THEN [cache |-> SubSeq(c, 1, KeyIndex(c, key) - 1) \o SubSeq(c, KeyIndex(c, key) + 1, Len(c)),
          ret |-> c[KeyIndex(c, key)].table]
    ELSE [cache |-> c, ret |-> None]

\* TableCache.get
get(c, key) ==
    IF key \in Keys(c)
    THEN [cache |-> c, ret |-> c[KeyIndex(c, key)].table]
    ELSE [cache |-> c, ret |-> None]

\* two Table objects of one name (an analysis result carries its source's name)
CacheTables == {[k |-> "table", name |-> <<"t">>, id |-> i] : i \in {1, 2}}
SuppliedKeys == {<<"k", "1">>, <<"k", "2">>}
GeneratedKeys == {generate_key(tb, b) : tb \in CacheTables, b \in RandomTokens}

NoOp == [op |-> "none", arg |-> None, key |-> <<>>, table |-> None, ret |-> None,
         before |-> <<>>]

InitCache ==
    /\ cache = <<>>
    /\ max_size \in 0..MaxCap
    /\ clock = 0
    /\ c_last = NoOp
    /\ c_ops = 0

\* table_cache.put(table) / table_cache.put(table, key). time.time() is the wall
\* clock: it does not go back here, and two calls may read the same value.
Put ==
    /\ c_ops < MaxOps
    /\ \E table \in CacheTables, tick \in {1, 0},
          arg \in {<<None, b>> : b \in RandomTokens}
                  \cup {<<StrV(k), <<>> >> : k \in SuppliedKeys \cup Keys(cache)} :
        LET key == arg[1]
            bytes == arg[2]
            r == put(cache, max_size, table, key, bytes, clock + tick, c_ops + 1)
        IN  /\ cache' = r.cache
            /\ clock' = clock + tick
            /\ c_last' = [op |-> "put", arg |-> key, key |-> r.ret, table |-> table,
                          ret |-> r.ret, before |-> cache]
    /\ c_ops' = c_ops + 1
    /\ UNCHANGED <<max_size, notCache>>

\* table_cache.get(key)
Get ==
    /\ c_ops < MaxOps
    /\ \E key \in SuppliedKeys \cup GeneratedKeys :
        LET r == get(cache, key)
        IN  /\ cache' = r.cache
            /\ c_last' = [op |-> "get", arg |-> key, key |-> key, table |-> None,
                          ret |-> r.ret, before |-> cache]
    /\ c_ops' = c_ops + 1
    /\ UNCHANGED <<max_size, clock, notCache>>

NextCache == Put \/ Get

\* ---- how long an entry is kept: puts under three keys, each of a Table object
\* of its own, on a cache of max_size 1 .. MaxRetained
MaxRetained == 3
MaxPuts == 5
RetentionKeys == {<<"k">>, <<"b">>, <<"c">>}

InitRetention ==
    /\ cache = <<>>
    /\ max_size \in 1..MaxRetained
    /\ clock = 0
    /\ c_last = NoOp
    /\ c_ops = 0
    /\ r_puts = <<>>

\* table_cache.put(table, key); the clock as in Put
Store ==
    /\ Len(r_puts) < MaxPuts
    /\ \E key \in RetentionKeys, tick \in {1, 0} :
        \E r \in {put(cache, max_size, [k |-> "table", name |-> <<"t">>, id |-> Len(r_puts) + 1],
                      StrV(key), <<>>, clock + tick, Len(r_puts) + 1)} :
            /\ cache' = r.cache
            /\ clock' = clock + tick
            /\ c_last' = [op |-> "put", arg |-> StrV(key), key |-> r.ret,
                          table |-> [k |-> "table", name |-> <<"t">>, id |-> Len(r_puts) + 1],
                          ret |-> r.ret, before |-> cache]
            /\ r_puts' = Append(r_puts, [key |-> r.ret, ts |-> clock + tick,
                                         table |-> [k |-> "table", name |-> <<"t">>,
                                                    id |-> Len(r_puts) + 1]])
    /\ UNCHANGED <<max_size, c_ops, tvars, kvars, lvars, svars, avars, s3vars>>

\* table_cache.get(key) between two puts (a get leaves the cache as it is, so
\* one get stands for any number of them)
Lookup ==
    /\ c_last.op = "put"
    /\ \E key \in RetentionKeys :
        \E r \in {get(cache, key)} :
            /\ cache' = r.cache
            /\ c_last' = [op |-> "get", arg |-> key, key |-> key, table |-> None,
                          ret |-> r.ret, before |-> cache]
    /\ UNCHANGED <<max_size, clock, c_ops, r_puts, tvars, kvars, lvars, svars, avars, s3vars>>

NextRetention == Store \/ Lookup

\* ------------------------------------------------------------------ interleaved calls
Threads == 1..NumThreads
Idle(calls) == [pc |-> "idle", key |-> <<>>, table |-> None, ts |-> 0, oldest |-> <<>>,
                calls |-> calls]

InitConc ==
    /\ cache = <<>>
    /\ max_size \in 1..MaxCap
    /\ clock = 0
    /\ c_last = NoOp
    /\ c_ops = 0
    /\ th = [i \in Threads |-> Idle(0)]
    /\ errors = {}

Raise(i, exc) ==
    /\ errors' = errors \cup {[thread |-> i, at |-> th[i].pc, exc |-> exc]}
    /\ th' = [th EXCEPT ![i] = Idle(th[i].calls)]

\* put, lines 53-56: the key and the timestamp
PutStart(i) ==
    /\ th[i].pc = "idle" /\ th[i].calls < MaxCalls
    /\ \E table \in CacheTables, key \in SuppliedKeys, tick \in {0, 1} :
        /\ th' = [th EXCEPT ![i] = [pc |-> "p_len", key |-> key, table |-> table,
                                    ts |-> clock + tick, oldest |-> <<>>,
                                    calls |-> th[i].calls + 1]]
        /\ clock' = clock + tick
    /\ UNCHANGED <<cache, errors, notConc>>

\* put, line 59: len(self.cache) >= self.max_size
PutLen(i) ==
    /\ th[i].pc = "p_len"
    /\ th' = [th EXCEPT ![i].pc = IF Len(cache) >= max_size THEN "e_empty" ELSE "p_set"]
    /\ UNCHANGED <<cache, clock, errors, notConc>>

\* _evict_oldest, line 88: if not self.cache: return
EvictEmpty(i) ==
    /\ th[i].pc = "e_empty"
    /\ th' = [th EXCEPT ![i].pc = IF Len(cache) = 0 THEN "p_set" ELSE "e_min"]
    /\ UNCHANGED <<cache, clock, errors, notConc>>

\* _evict_oldest, line 91: oldest_key = min(...); min of nothing raises ValueError
EvictMin(i) ==
    /\ th[i].pc = "e_min"
    /\ IF Len(cache) = 0
       THEN Raise(i, "ValueError")
       ELSE /\ th' = [th EXCEPT ![i].pc = "e_del", ![i].oldest = cache[oldest_index(cache)].key]
            /\ errors' = errors
    /\ UNCHANGED <<cache, clock, notConc>>

\* _evict_oldest, line 92: del self.cache[oldest_key]
EvictDel(i) ==
    /\ th[i].pc = "e_del"
    /\ IF th[i].oldest \notin Keys(cache)
       THEN Raise(i, "KeyError") /\ cache' = cache
       ELSE /\ cache' = SubSeq(cache, 1, KeyIndex(cache, th[i].oldest) - 1)
                        \o SubSeq(cache, KeyIndex(cache, th[i].oldest) + 1, Len(cache))
            /\ th' = [th EXCEPT ![i].pc = "p_set"]
            /\ errors' = errors
    /\ UNCHANGED <<clock, notConc>>

\* put, lines 62-64: self.cache[key] = (table, key, timestamp); return key
PutSet(i) ==
    /\ th[i].pc = "p_set"
    /\ cache' = dict_set(cache, [key |-> th[i].key, table |-> th[i].table,
                                 ts |-> th[i].ts, n |-> 0])
    /\ th' = [th EXCEPT ![i] = Idle(th[i].calls)]
    /\ UNCHANGED <<clock, errors, notConc>>

\* get, line 78: if key in self.cache
GetIn(i) ==
    /\ th[i].pc = "idle" /\ th[i].calls < MaxCalls
    /\ \E key \in SuppliedKeys :
        th' = [th EXCEPT ![i] = IF key \in Keys(cache)
                                THEN [pc |-> "g_read", key |-> key, table |-> None, ts |-> 0,
                                      oldest |-> <<>>, calls |-> th[i].calls + 1]
                                ELSE Idle(th[i].calls + 1)]
    /\ UNCHANGED <<cache, clock, errors, notConc>>

\* get, lines 79-81: table, _, timestamp = self.cache[key]; return table
GetRead(i) ==
    /\ th[i].pc = "g_read"
    /\ IF th[i].key \notin Keys(cache)
       THEN Raise(i, "KeyError")
       ELSE th' = [th EXCEPT ![i] = Idle(th[i].calls)] /\ errors' = errors
    /\ UNCHANGED <<cache, clock, notConc>>

NextConc ==
    \E i \in Threads :
        \/ PutStart(i) \/ PutLen(i) \/ EvictEmpty(i) \/ EvictMin(i) \/ EvictDel(i)
        \/ PutSet(i) \/ GetIn(i) \/ GetRead(i)

\* ------------------------------------------------------------------ DataLoader
SampleSize == 100   \* df.sample(100)
Retries == 3        \* Agent(..., retries=3)

List(q) == [k |-> "list", v |-> q]
\* `not column_schemas`: None and the empty list alike
Falsy(x) == x = None \/ Len(x.v) = 0

\* the characters the model writes
AllChars == {Digits[i] : i \in 1..10} \cup {" ", "-", ".", ":", "x"}
\* a cleaning pattern that matches nothing, and [^0-9.\-]
KeepAll == [keep |-> AllChars]
KeepNumeric == [keep |-> {Digits[i] : i \in 1..10} \cup {"-", "."}]

qty_raw == ColumnSchema("qty", "integer", KeepAll, None, None)
qty_clean == ColumnSchema("qty", "integer", KeepNumeric, None, None)
qty_str == ColumnSchema("qty", "string", KeepAll, None, None)
yr_int == ColumnSchema("yr", "integer", KeepNumeric, None, None)
yr_year == ColumnSchema("yr", "integer", KeepNumeric, None, PartialDatetimeSchema("year", "Date"))
ghost == ColumnSchema("ghost", "string", KeepAll, None, None)

\* what the oracle may propose, and what a caller may supply
OracleProposals == {<<qty_raw, yr_year>>, <<qty_clean, yr_year>>, <<ghost>>}
SuppliedSchemas ==
    {None, List(<<>>), List(<<yr_int, qty_str>>)} \cup {List(q) : q \in OracleProposals}

\* CSV contents: a header and rows of fields; the empty content has neither.
\* The first row's qty is a number, a word, or an empty field.
CsvRow(r, first) == <<IF r = 1 THEN first ELSE <<" ", "7">>, <<"2", "0", "2", "4", " ">> >>
CsvHeights == {0, 1, SampleSize - 1, SampleSize, SampleSize + 1}
CsvInputs ==
    {[header |-> <<>>, rows |-> <<>>]}
    \cup {[header |-> <<"qty", "yr">>, rows |-> [r \in 1..h |-> CsvRow(r, first)]] :
            h \in CsvHeights, first \in {<<"7">>, <<"x">>, <<>>}}

\* pl.read_csv(..., infer_schema=False): every column a String column, an empty
\* field null; content without a header is rejected
read_csv(csv) ==
    IF Len(csv.header) = 0 THEN Err("NoDataError")
    ELSE Ok([c \in 1..Len(csv.header) |->
               [name |-> csv.header[c], dtype |-> "String",
                vals |-> [r \in 1..Len(csv.rows) |->
                            IF csv.rows[r][c] = <<>> THEN Null ELSE StrV(csv.rows[r][c])]]])

\* DataLoader.preprocess_data
preprocess_data(f) == StripAll(f)

RECURSIVE Combinations(_, _)
\* the subsets of 1..n with d elements
Combinations(n, d) ==
    IF d = 0 THEN {{}}
    ELSE UNION {{c \cup {x} : x \in (1..n) \ c} : c \in Combinations(n, d - 1)}

\* DataFrame.sample(n), without replacement: any n of the rows; more rows than the
\* frame has is an error
sample(f, n) ==
    IF Height(f) < n THEN [ok |-> FALSE, frames |-> {}, err |-> "ShapeError"]
    ELSE [ok |-> TRUE, err |-> "none",
          frames |-> {Bind(KeptRows([r \in 1..Height(f) |-> r \notin out], Height(f)),
                           LAMBDA idx : TakeRows(f, idx)) :
                        out \in Combinations(Height(f), Height(f) - n)}]

\* Table(name=..., source=..., data=f) as the only object of a heap
TableOn(name, f) == [tables |-> <<[name |-> name, data |-> 1]>>, frames |-> <<f>>]

\* transform(table=Table(...)): [ok, data, err]
CallOn(T, name, f) ==
    Bind(BaseTransform_call(T, TableOn(name, f), 1),
         LAMBDA r : IF r.status = "ok" THEN Ok(DataOf(r.heap, r.result)) ELSE Err(r.err))

ColumnSchemaTransform(cs) == [cls |-> "ColumnSchemaTransform", column_schemas |-> cs]

RECURSIVE is_data_parseable_from(_, _, _)
is_data_parseable_from(f, schema, i) ==
    IF i > Len(schema) THEN [ok |-> TRUE, column |-> "none", error |-> "none"]
    ELSE Bind(CallOn(ColumnSchemaTransform(<<schema[i]>>), "data", f),
              LAMBDA r : IF r.ok THEN is_data_parseable_from(f, schema, i + 1)
                         ELSE [ok |-> FALSE, column |-> schema[i].name, error |-> r.err])

\* the tool is_data_parseable: column by column on deps.frame; the first column
\* that fails raises ModelRetry(f"Error parsing column {col.name}: {e}")
is_data_parseable(f, schema) == is_data_parseable_from(f, schema, 1)

\* a faulty variant of format_transforms: the first two transforms change places
format_transforms_fuse_first(cs) ==
    <<[cls |-> "FusePartialDatetimeColumnsTransform", column_schemas |-> cs],
      ColumnSchemaTransform(cs),
      [cls |-> "StringToCategoricalTransform", min_unique |-> 1, max_unique |-> 100,
       uniqueness_threshold |-> [num |-> 1, den |-> 10]],
      [cls |-> "DefaultColumnSortingTransform"]>>

\* the list `transforms` of DataLoader.format_table
format_transforms(cs) ==
    <<ColumnSchemaTransform(cs),
      [cls |-> "FusePartialDatetimeColumnsTransform", column_schemas |-> cs],
      [cls |-> "StringToCategoricalTransform", min_unique |-> 1, max_unique |-> 100,
       uniqueness_threshold |-> [num |-> 1, den |-> 10]],
      [cls |-> "DefaultColumnSortingTransform"]>>

\* a faulty variant of retries_exhausted: the budget is never used up
retries_never_exhausted(current_retry) == FALSE

\* pydantic_ai's accounting for a tool that raised ModelRetry: the tool's count of
\* failures in a row, this one included, against the agent's `retries`
retries_exhausted(current_retry) == current_retry > Retries

NoRun == [state |-> "idle", frame |-> <<>>, requests |-> 0, retries |-> 0, reasks |-> 0,
          feedback |-> None, passed |-> {}]
Filename == "data.csv"
\* the name the Table gets: the argument `filename`, or path.name (line 93)
filename == IF l_path = None THEN Filename ELSE l_path.name

\* files on disk and paths to none: the final component, and whether it exists
Path(name, exists) == [k |-> "path", name |-> name, exists |-> exists]
PathNames ==
    {<<"x", ".", "c", "s", "v">>, <<"x", ".", "C", "S", "V">>, <<"x", ".", "x">>,
     <<"x", ".", "c", "s", "v", ".", "x">>, <<"x">>, <<".", "c", "s", "v">>}
Paths == {Path(n, e) : n \in PathNames, e \in BOOLEAN}
NoContent == [header |-> <<>>, rows |-> <<>>]
\* what the files that exist hold
FileContents == {c \in CsvInputs : Len(c.rows) <= 1}

\* PurePath.suffix: the final component from its last dot on, "" when there is
\* no dot or the only dot leads the name
suffix(name) ==
    LET dots == {i \in 2..Len(name) : name[i] = "."}
    IN  IF dots = {} THEN <<>>
        ELSE SubSeq(name, CHOOSE i \in dots : \A j \in dots : j <= i, Len(name))

\* a faulty variant of load_csv_checks: the extension is looked at first
load_csv_checks_suffix_first(path) ==
    IF to_lowercase(suffix(path.name)) # <<".", "c", "s", "v">> THEN "ValueError"
    ELSE IF ~path.exists THEN "FileNotFoundError"
    ELSE "none"

\* load_csv, lines 80-84: the two tests made on the path before the try block
load_csv_checks(path) ==
    IF ~path.exists THEN "FileNotFoundError"
    ELSE IF ~(to_lowercase(suffix(path.name)) = <<".", "c", "s", "v">>) THEN "ValueError"
    ELSE "none"

\* load_csv is called with a path, load_csv_from_bytes with the content itself
InitLoader ==
    /\ l_pc = "call"
    /\ \/ l_path = None /\ l_csv \in CsvInputs
       \/ l_path \in {p \in Paths : p.exists} /\ l_csv \in FileContents
       \/ l_path \in {p \in Paths : ~p.exists} /\ l_csv = NoContent
    /\ l_arg \in SuppliedSchemas
    /\ l_df = <<>>
    /\ l_schemas = None
    /\ l_i = 1
    /\ l_table = None
    /\ l_steps = <<>>
    /\ l_err = "none"
    /\ ag = NoRun

Step(name, in, out, ok) == [step |-> name, in |-> in, out |-> out, ok |-> ok]

\* an exception leaves load_csv / load_csv_from_bytes: logged and re-raised
LoadFails(name, in, err) ==
    /\ l_pc' = "failed"
    /\ l_err' = err
    /\ l_steps' = Append(l_steps, Step(name, in, <<>>, FALSE))
    /\ l_table' = None

\* load_csv, lines 78-84: an exception raised here leaves the call before the
\* try block is entered
CheckPath ==
    /\ l_pc = "call"
    /\ l_path # None
    /\ \E e \in {load_csv_checks(l_path)} :
           IF e = "none"
           THEN l_pc' = "open" /\ l_err' = l_err
           ELSE l_pc' = "failed" /\ l_err' = e
    /\ UNCHANGED <<l_path, l_csv, l_arg, l_df, l_schemas, l_i, l_table, l_steps, ag, notLoader>>

\* load_csv_from_bytes, line 124 (load_csv, line 88): df = pl.read_csv(...)
ReadCsv ==
    /\ \/ l_pc = "call" /\ l_path = None
       \/ l_pc = "open"
    /\ \E r \in {read_csv(l_csv)} :
           IF r.ok
           THEN /\ l_df' = r.data
                /\ l_pc' = "read"
                /\ l_steps' = Append(l_steps, Step("read", <<>>, r.data, TRUE))
                /\ UNCHANGED <<l_err, l_table>>
           ELSE LoadFails("read", <<>>, r.err) /\ l_df' = l_df
    /\ UNCHANGED <<l_path, l_csv, l_arg, l_schemas, l_i, ag, notLoader>>

\* _process_dataframe, lines 53-55: df = self.preprocess_data(df), then the test
\* `if not column_schemas`
PreprocessData ==
    /\ l_pc = "read"
    /\ \E out \in {preprocess_data(l_df)} :
        /\ l_df' = out
        /\ l_steps' = Append(l_steps, Step("strip", l_df, out, TRUE))
    /\ IF Falsy(l_arg)
       THEN l_pc' = "sample" /\ l_schemas' = l_schemas
       ELSE l_pc' = "format" /\ l_schemas' = l_arg
    /\ UNCHANGED <<l_path, l_csv, l_arg, l_i, l_table, l_err, ag, notLoader>>

\* _process_dataframe, line 56: EngineDeps(frame=df.sample(100)) and the start of
\* datatype_parser.run; the system prompt samples deps.frame once more (agents.py, 84)
RunAgent ==
    /\ l_pc = "sample"
    /\ \E s \in {sample(l_df, SampleSize)} :
           IF ~s.ok
           THEN LoadFails("oracle", l_df, s.err) /\ ag' = ag
           ELSE \E fr \in s.frames :
                   IF sample(fr, SampleSize).ok
                   THEN /\ ag' = [NoRun EXCEPT !.state = "running", !.frame = fr]
                        /\ l_pc' = "oracle"
                        /\ UNCHANGED <<l_steps, l_err, l_table>>
                   ELSE LoadFails("oracle", l_df, "ShapeError") /\ ag' = ag
    /\ UNCHANGED <<l_path, l_csv, l_arg, l_df, l_schemas, l_i, notLoader>>

\* one answer of the oracle that calls the tool is_data_parseable(schema). A pass
\* returns True and clears the tool's count of failures; a failure is counted and,
\* within the budget, sent back as a retry prompt with the column and the error.
OracleCheck ==
    /\ l_pc = "oracle"
    /\ ag.requests < RequestLimit
    /\ \E schema \in OracleProposals : \E r \in {is_data_parseable(ag.frame, schema)} :
            IF r.ok
            THEN /\ ag' = [ag EXCEPT !.requests = @ + 1, !.retries = 0, !.feedback = None,
                                     !.passed = @ \cup {schema}]
                 /\ UNCHANGED <<l_pc, l_steps, l_err, l_table>>
            ELSE IF retries_exhausted(ag.retries + 1)
            THEN /\ ag' = [ag EXCEPT !.requests = @ + 1, !.retries = @ + 1,
                                     !.state = "exhausted", !.feedback = None]
                 /\ LoadFails("oracle", l_df, "UnexpectedModelBehavior")
            ELSE /\ ag' = [ag EXCEPT !.requests = @ + 1, !.retries = @ + 1, !.reasks = @ + 1,
                                     !.feedback = [k |-> "retry", schema |-> schema,
                                                   column |-> r.column, error |-> r.error]]
                 /\ UNCHANGED <<l_pc, l_steps, l_err, l_table>>
    /\ UNCHANGED <<l_path, l_csv, l_arg, l_df, l_schemas, l_i, notLoader>>

\* one answer of the oracle that gives the final result; line 57:
\* column_schemas = result.output. Nothing else of the run is kept.
OracleAnswer ==
    /\ l_pc = "oracle"
    /\ ag.requests < RequestLimit
    /\ \E schema \in OracleProposals :
        /\ l_schemas' = List(schema)
        /\ ag' = [NoRun EXCEPT !.state = "finished", !.frame = ag.frame,
                               !.passed = ag.passed \cap {schema}]
    /\ l_pc' = "format"
    /\ l_steps' = Append(l_steps, Step("oracle", l_df, l_df, TRUE))
    /\ UNCHANGED <<l_path, l_csv, l_arg, l_df, l_i, l_table, l_err, notLoader>>

\* the run has used its requests: UsageLimitExceeded
OracleLimit ==
    /\ l_pc = "oracle"
    /\ ag.requests >= RequestLimit
    /\ ag' = [ag EXCEPT !.state = "limit", !.feedback = None]
    /\ LoadFails("oracle", l_df, "UsageLimitExceeded")
    /\ UNCHANGED <<l_path, l_csv, l_arg, l_df, l_schemas, l_i, notLoader>>

\* format_table, lines 154-155: table = transform(table=table), one turn of the
\* loop; after the last turn the Table is returned (lines 59-61, 156)
FormatStep ==
    /\ l_pc = "format"
    /\ \E T \in {format_transforms(l_schemas.v)[l_i]} : \E r \in {CallOn(T, filename, l_df)} :
           IF r.ok
           THEN /\ l_df' = r.data
                /\ l_steps' = Append(l_steps, Step(T.cls, l_df, r.data, TRUE))
                /\ l_i' = l_i + 1
                /\ IF l_i = Len(format_transforms(l_schemas.v))
                   THEN /\ l_pc' = "done"
                        /\ l_table' = [k |-> "table", name |-> filename, source |-> "file",
                                       data |-> r.data]
                   ELSE UNCHANGED <<l_pc, l_table>>
                /\ l_err' = l_err
           ELSE LoadFails(T.cls, l_df, r.err) /\ UNCHANGED <<l_df, l_i>>
    /\ UNCHANGED <<l_path, l_csv, l_arg, l_schemas, ag, notLoader>>

NextLoader ==
    \/ CheckPath \/ ReadCsv \/ PreprocessData \/ RunAgent
    \/ OracleCheck \/ OracleAnswer \/ OracleLimit
    \/ FormatStep

\* ------------------------------------------------------------------ one transform, once
NoResult == [heap |-> [tables |-> <<>>, frames |-> <<>>], status |-> "none",
             err |-> "none", result |-> 0]

\* tables of sales: a key column k and a measure rev
MaxSales == 3
RevVals == {IntV(1), IntV(2)}
Regions == {StrV("A"), StrV("B")}
Days == {DtV(2024, 1, 1, 0, 0, 0), DtV(2024, 1, 1, 12, 0, 0), DtV(2024, 1, 2, 0, 0, 0)}
SalesFrame(dtype, ks, revs) ==
    <<[name |-> "k", dtype |-> dtype, vals |-> ks],
      [name |-> "rev", dtype |-> "Int64", vals |-> revs]>>
SalesFrames ==
    UNION {{SalesFrame("String", ks, revs) :
              ks \in SeqsOfLen(Regions, n), revs \in SeqsOfLen(RevVals, n)} : n \in 1..MaxSales}
    \cup {SalesFrame("Datetime", ks, revs) :
              ks \in SeqsOfLen(Days, 2), revs \in SeqsOfLen(RevVals, 2)}
    \cup {SalesFrame("String", [i \in 1..Len(revs) |-> StrV("A")], revs) :
              revs \in {<<IntV(0 - 2), IntV(1), IntV(2)>>,
                        <<IntV(1), IntV(2), IntV(3), IntV(4)>>}}

\* ConcentrationAnalysisTransform(on, by) called with labels, breaks,
\* output_column="Concentration"; `reversed` is polars' order of the groups
ConcentrationAnalysisTransform(on, by, labels, breaks, reversed) ==
    [cls |-> "ConcentrationAnalysisTransform", on |-> on, by |-> by, labels |-> labels,
     breaks |-> breaks, output_column |-> "Concentration", reversed |-> reversed]
BreakVals == {Frac(0 - 1, 2), Frac(0, 1), Frac(1, 2), Frac(1, 1), Frac(3, 2)}
LabelLists == {<<>>, <<"Top 50%">>, <<"Top 50%", "Top 10%">>,
               <<"Top 50%", "Top 20%", "Top 10%">>}
ConcentrationCalls ==
    {ConcentrationAnalysisTransform("rev", <<"k">>, c[1], c[2], reversed) :
        c \in {<<<<"Top 50%">>, <<Frac(1, 2)>> >>,
                <<<<"Top 50%", "Top 10%">>, <<Frac(1, 2), Frac(9, 10)>> >>,
                <<<<"Top 10%", "Top 50%">>, <<Frac(9, 10), Frac(1, 2)>> >>,
                <<<<"Top 50%">>, <<Frac(3, 2)>> >>,
                <<<<>>, <<>> >>,
                <<<<"Top 50%", "Top 10%">>, <<Frac(1, 2)>> >>,
                <<<<"Top 50%">>, <<Frac(1, 2), Frac(3, 2)>> >>,
                <<<<"Top 50%">>, <<>> >>,
                <<<<>>, <<Frac(1, 2)>> >>},
        reversed \in BOOLEAN}
    \cup {ConcentrationAnalysisTransform(on, by, <<"Top 50%">>, <<b>>, FALSE) :
        on \in {"rev", "k", "ghost"},
        by \in {<<"k">>, <<"rev">>, <<"k", "rev">>, <<"ghost">>},
        b \in {Frac(1, 2), Frac(3, 2)}}
QuantileLabelTransforms ==
    {QuantileLabelTransform(<<"k">>, labels, breaks, "rev", "Bucket") :
        labels \in LabelLists,
        breaks \in SeqsOfLen(BreakVals, 0) \cup SeqsOfLen(BreakVals, 1)
                    \cup SeqsOfLen(BreakVals, 2)}

\* ---- the formatting transforms
mo_month ==
    ColumnSchema("mo", "integer", KeepNumeric, None, PartialDatetimeSchema("month", "Date"))
mo_year == ColumnSchema("mo", "integer", KeepNumeric, None, PartialDatetimeSchema("year", "id"))
Date_year ==
    ColumnSchema("Date", "integer", KeepNumeric, None, PartialDatetimeSchema("year", "Date"))
qty_bool == ColumnSchema("qty", "boolean", KeepAll, None, None)
\* the lists of at most two schemas of a pool
SchemaLists(pool) == SeqsOfLen(pool, 0) \cup SeqsOfLen(pool, 1) \cup SeqsOfLen(pool, 2)
Column(name, dtype, vals) == [name |-> name, dtype |-> dtype, vals |-> vals]

\* frames as read from a CSV, all text, and the same with the columns the other
\* way round
RawFrames ==
    UNION {{read_csv(c).data,
            [i \in 1..2 |-> read_csv(c).data[3 - i]]} : c \in {x \in FileContents : Len(x.rows) = 1}}
ColumnSchemaTransforms ==
    {ColumnSchemaTransform(cs) : cs \in SchemaLists({qty_raw, qty_str, qty_bool, yr_int, ghost})}

\* frames holding the parts of a date, as whole numbers, as floating-point
\* numbers or as text, or lacking the month
PartFrames ==
    {<<Column("yr", "Int64", <<IntV(2024)>>), Column("mo", "Int64", <<IntV(m)>>),
       Column("qty", "Int64", <<IntV(7)>>)>> : m \in {2, 13}}
    \cup {<<Column("qty", "Int64", <<IntV(7)>>), Column("Date", "Int64", <<IntV(2024)>>)>>,
          <<Column("yr", "Int64", <<IntV(2024)>>), Column("qty", "Int64", <<IntV(7)>>)>>,
          <<Column("yr", "Int64", <<IntV(2024)>>),
            Column("mo", "Float64", <<FloatV(FALSE, 2, <<>>)>>)>>,
          <<Column("yr", "String", <<StrV(<<"2", "0", "2", "4">>)>>),
            Column("mo", "String", <<StrV(<<"x">>)>>)>>}
    \cup {<<Column("yr", "Int64", <<IntV(2024)>>), Column("mo", "String", <<StrV(m)>>)>> :
             m \in {<<"x">>, <<"0", "3">>}}
FuseTransforms ==
    {[cls |-> "FusePartialDatetimeColumnsTransform", column_schemas |-> cs] :
        cs \in SchemaLists({yr_year, mo_month, mo_year, Date_year, qty_raw})}

\* a text column of a's, b's, c's and nulls beside a column of numbers
MaxText == 5
Repeat(c, n) == [i \in 1..n |-> c]
TextFrame(n) ==
    <<Column("name", "String",
             Repeat(StrV(<<"a">>), n[1]) \o Repeat(StrV(<<"b">>), n[2])
             \o Repeat(StrV(<<"c">>), n[3]) \o Repeat(Null, n[4])),
      Column("qty", "Int64", [i \in 1..(n[1] + n[2] + n[3] + n[4]) |-> IntV(i)])>>
TextFrames ==
    {TextFrame(n) : n \in {x \in [1..4 -> 0..MaxText] :
                              x[1] + x[2] + x[3] + x[4] \in 1..MaxText}}
StringToCategoricalTransforms ==
    {[cls |-> "StringToCategoricalTransform", min_unique |-> mn, max_unique |-> mx,
      uniqueness_threshold |-> t] :
        mn \in {1, 2}, mx \in {2, 100}, t \in {Frac(1, 2), Frac(3, 5)}}

\* frames of up to three columns of the types a formatted table can hold
TypedColumns ==
    {Column("Date", "Datetime", <<DtV(2024, 1, 1, 0, 0, 0)>>),
     Column("name", "Categorical", <<StrV(<<"a">>)>>),
     Column("ghost", "String", <<StrV(<<"b">>)>>),
     Column("qty", "Int64", <<IntV(7)>>),
     Column("id", "Int64", <<IntV(1)>>),
     Column("mo", "Float64", <<FloatV(FALSE, 1, <<"5">>)>>),
     Column("flag", "Boolean", <<BoolV(TRUE)>>)}
TypedFrames ==
    {f \in SeqsOfLen(TypedColumns, 1) \cup SeqsOfLen(TypedColumns, 2)
            \cup SeqsOfLen(TypedColumns, 3) :
        \A i, j \in 1..Len(f) : i # j => f[i].name # f[j].name}

InitSingle(transforms, inputs) ==
    /\ s_pc = "new"
    /\ s_T \in transforms
    /\ s_in \in inputs
    /\ s_out = NoResult
InitStandard ==
    \/ InitSingle(ConcentrationCalls, SalesFrames)
    \/ InitSingle(QuantileLabelTransforms,
                  {f \in SalesFrames : Height(f) = MaxSales /\ f[2].vals[1] = IntV(1)})

\* the constructor: pydantic builds the object and runs the class's validator
Construct ==
    /\ s_pc = "new"
    /\ s_pc' = IF s_T.cls = "QuantileLabelTransform" /\ ~validate_breaks(s_T.breaks, s_T.labels)
              THEN "rejected" ELSE "built"
    /\ UNCHANGED <<s_T, s_in, s_out, notSingle>>

\* transform(table): BaseTransform.__call__ on a Table holding s_in
Invoke ==
    /\ s_pc = "built"
    /\ s_out' = BaseTransform_call(s_T, TableOn("sales", s_in), 1)
    /\ s_pc' = "done"
    /\ UNCHANGED <<s_T, s_in, notSingle>>

NextSingle == Construct \/ Invoke

InitFormatting ==
    \/ InitSingle(ColumnSchemaTransforms, RawFrames)
    \/ InitSingle(FuseTransforms, PartFrames)
    \/ InitSingle(StringToCategoricalTransforms, TextFrames)
    \/ InitSingle({[cls |-> "DefaultColumnSortingTransform"]}, TypedFrames)

\* ------------------------------------------------------------------ the service
DefaultMaxSize == 100    \* TableCache.__init__(max_size=100); table_cache = TableCache()
MaxCached == 102         \* tables the service caches per behaviour

\* secrets.token_hex(6) of the n-th key: no two keys of a behaviour draw the same bytes
FreshToken(n) ==
    [i \in 1..TokenBytes |-> IF i = 1 THEN (n \div 256) % 256 ELSE IF i = 2 THEN n % 256 ELSE 0]

\* the Table objects of the service carry their data
TableOf(name, f) == [k |-> "table", name |-> name, data |-> f]
\* what DataLoader returns for the client's file: a table the analysis works on,
\* and one on which it raises (no row lies above its partition's quantile)
SourceTables ==
    {TableOf(<<"s">>, SalesFrame("String", <<StrV("A"), StrV("A"), StrV("B")>>,
                                 <<IntV(1), IntV(2), IntV(2)>>)),
     TableOf(<<"s">>, SalesFrame("String", <<StrV("A")>>, <<IntV(1)>>))}

\* ConcentrationAnalysisRequest(cache_key, on, by)
ConcentrationAnalysisRequest(cache_key, on, by) == [cache_key |-> cache_key, on |-> on, by |-> by]
AbsentKey == <<"s", ":", "?">>
\* ConcentrationAnalysisTransform(on=request.on, by=request.by), called with the
\* defaults of apply
RequestTransform(request) ==
    ConcentrationAnalysisTransform(request.on, request.by, <<"Top 50%", "Top 20%", "Top 10%">>,
                                   <<Frac(1, 2), Frac(4, 5), Frac(9, 10)>>, FALSE)

Response(c, status, key, ran) == [cache |-> c, status |-> status, key |-> key, ran |-> ran]

\* a faulty variant of run_concentration: without `except HTTPException: raise`
\* the 404 is caught by `except Exception` and answered as 500
run_concentration_no_reraise(c, cap, request, bytes, ts, n) ==
    Bind(get(c, request.cache_key), LAMBDA g :
    IF g.ret = None THEN Response(g.cache, 500, None, FALSE)
    ELSE Bind(BaseTransform_call(RequestTransform(request), TableOn("table", g.ret.data), 1),
              LAMBDA r :
         IF r.status # "ok" THEN Response(g.cache, 500, None, TRUE)
         ELSE Bind(put(g.cache, cap, TableOf(g.ret.name, DataOf(r.heap, r.result)), None,
                       bytes, ts, n),
                   LAMBDA p : Response(p.cache, 200, StrV(p.ret), TRUE))))

\* run_concentration: the cache after the request, the status answered, the
\* cache_key of the result and whether the transform was called
run_concentration(c, cap, request, bytes, ts, n) ==
    Bind(get(c, request.cache_key), LAMBDA g :
    IF g.ret = None THEN Response(g.cache, 404, None, FALSE)
    ELSE Bind(BaseTransform_call(RequestTransform(request), TableOn("table", g.ret.data), 1),
              LAMBDA r :
         IF r.status # "ok" THEN Response(g.cache, 500, None, TRUE)
         ELSE Bind(put(g.cache, cap, TableOf(g.ret.name, DataOf(r.heap, r.result)), None,
                       bytes, ts, n),
                   LAMBDA p : Response(p.cache, 200, StrV(p.ret), TRUE))))

\* get_data_from_file from the download on: `found` is whether S3 has the key,
\* `loaded` the Table DataLoader returns, None when it raises
get_data_from_file(c, cap, found, loaded, bytes, ts, n) ==
    IF ~found THEN Response(c, 404, None, FALSE)
    ELSE IF loaded = None THEN Response(c, 500, None, FALSE)
    ELSE Bind(put(c, cap, loaded, None, bytes, ts, n),
              LAMBDA p : Response(p.cache, 200, StrV(p.ret), FALSE))

InitService ==
    /\ cache = <<>>
    /\ max_size = DefaultMaxSize
    /\ clock = 0
    /\ c_last = NoOp
    /\ c_ops = 0
    /\ api_key = None
    /\ api_last = None
    /\ api_puts = 0

\* GET /files by a client that has no table yet; it keeps the cache_key answered.
\* time.time() is read by put alone: the clock moves on by one at each put.
LoadFile ==
    /\ api_key = None
    /\ api_puts < MaxCached
    /\ \E found \in BOOLEAN, loaded \in SourceTables \cup {None} :
        \E resp \in {get_data_from_file(cache, max_size, found, loaded, FreshToken(api_puts + 1),
                                        clock + 1, api_puts + 1)} :
            /\ cache' = resp.cache
            /\ api_key' = resp.key
            /\ api_puts' = IF resp.status = 200 THEN api_puts + 1 ELSE api_puts
            /\ api_last' = [req |-> "files", cache_key |-> <<>>, on |-> "", by |-> <<>>,
                            status |-> resp.status, key |-> resp.key, ran |-> resp.ran,
                            before |-> cache]
            /\ clock' = IF resp.status = 200 THEN clock + 1 ELSE clock
    /\ UNCHANGED <<max_size, notService>>

\* POST /analyses/concentration on the client's cache_key or on a key never cached
Analyse ==
    /\ api_puts < MaxCached
    /\ \E cache_key \in {AbsentKey} \cup (IF api_key = None THEN {} ELSE {api_key.v}),
          on \in {"rev", "k"} :
        \E resp \in {run_concentration(cache, max_size,
                                       ConcentrationAnalysisRequest(cache_key, on, <<"k">>),
                                       FreshToken(api_puts + 1), clock + 1, api_puts + 1)} :
            /\ cache' = resp.cache
            /\ api_puts' = IF resp.status = 200 THEN api_puts + 1 ELSE api_puts
            /\ api_last' = [req |-> "concentration", cache_key |-> cache_key, on |-> on,
                            by |-> <<"k">>, status |-> resp.status, key |-> resp.key,
                            ran |-> resp.ran, before |-> cache]
            /\ clock' = IF resp.status = 200 THEN clock + 1 ELSE clock
    /\ UNCHANGED <<max_size, api_key, notService>>

NextService == LoadFile \/ Analyse

\* ------------------------------------------------------------------ the S3 client
MaxS3Calls == 3    \* calls of get_s3_client, health_check_s3, reset_s3_client per behaviour

\* what _s3_client.head_bucket does: it returns, or raises a ClientError with the
\* code 404, 403 or another one, NoCredentialsError, or (the endpoint being out
\* of reach) EndpointConnectionError, which is no ClientError
HeadBucket == {"ok", "404", "403", "500", "NoCredentialsError", "EndpointConnectionError"}

\* a client object; `checked`: its head_bucket in get_s3_client returned (observer's mark)
Client(checked) == [k |-> "client", checked |-> checked]
Outcome(client, ret, exc) == [client |-> client, ret |-> ret, exc |-> exc]

\* get_s3_client: the module's _s3_client after the call, what the call returns
\* (None when it raises) and the exception it raises
get_s3_client(client, creds, head_bucket) ==
    IF client # None THEN Outcome(client, client, "none")
    ELSE IF ~creds THEN Outcome(None, None, "RuntimeError")
    ELSE IF head_bucket = "ok" THEN Outcome(Client(TRUE), Client(TRUE), "none")
    ELSE IF head_bucket = "EndpointConnectionError"
    THEN Outcome(Client(FALSE), None, "EndpointConnectionError")
    ELSE Outcome(Client(FALSE), None, "RuntimeError")

\* health_check_s3: the module's _s3_client after the call and the status reported
health_check_s3(client, creds, head_bucket) ==
    Bind(get_s3_client(client, creds, head_bucket), LAMBDA g :
         [client |-> g.client,
          status |-> IF g.exc = "none" /\ head_bucket = "ok" THEN "healthy" ELSE "unhealthy"])

InitS3 ==
    /\ s3_client = None
    /\ s3_creds \in BOOLEAN
    /\ s3_bucket \in HeadBucket
    /\ s3_last = None
    /\ s3_calls = 0

\* an endpoint asks for the client (upload_to_s3, get_data_from_file)
GetS3Client ==
    /\ s3_calls < MaxS3Calls
    /\ \E g \in {get_s3_client(s3_client, s3_creds, s3_bucket)} :
        /\ s3_client' = g.client
        /\ s3_last' = [fn |-> "get_s3_client", ret |-> g.ret, exc |-> g.exc,
                       status |-> "none", before |-> s3_client]
    /\ s3_calls' = s3_calls + 1
    /\ UNCHANGED <<s3_creds, s3_bucket, notS3>>

\* GET /health
HealthCheckS3 ==
    /\ s3_calls < MaxS3Calls
    /\ \E h \in {health_check_s3(s3_client, s3_creds, s3_bucket)} :
        /\ s3_client' = h.client
        /\ s3_last' = [fn |-> "health_check_s3", ret |-> None, exc |-> "none",
                       status |-> h.status, before |-> s3_client]
    /\ s3_calls' = s3_calls + 1
    /\ UNCHANGED <<s3_creds, s3_bucket, notS3>>

\* reset_s3_client
ResetS3Client ==
    /\ s3_calls < MaxS3Calls
    /\ s3_client' = None
    /\ s3_last' = [fn |-> "reset_s3_client", ret |-> None, exc |-> "none",
                   status |-> "none", before |-> s3_client]
    /\ s3_calls' = s3_calls + 1
    /\ UNCHANGED <<s3_creds, s3_bucket, notS3>>

\* the bucket is created, deleted, closed to the service, or the endpoint goes away
BucketChanges ==
    /\ \E b \in HeadBucket \ {s3_bucket} : s3_bucket' = b
    /\ UNCHANGED <<s3_client, s3_creds, s3_last, s3_calls, notS3>>

NextS3 == GetS3Client \/ HealthCheckS3 \/ ResetS3Client \/ BucketChanges

\* ------------------------------------------------------------------ specifications
TransformIdle ==
    /\ tables = <<>> /\ frames = <<>> /\ t_in = 0 /\ t_orig = None
    /\ t_call = NoCall /\ t_mods = 0
CacheIdle ==
    /\ cache = <<>> /\ max_size = 0 /\ clock = 0 /\ c_last = NoOp /\ c_ops = 0
ConcIdle ==
    /\ th = <<>> /\ errors = {}
SingleIdle ==
    /\ s_pc = "idle" /\ s_T = None /\ s_in = <<>> /\ s_out = NoResult
RetentionIdle == r_puts = <<>>
ServiceIdle == api_key = None /\ api_last = None /\ api_puts = 0
S3Idle ==
    /\ s3_client = None /\ s3_creds = FALSE /\ s3_bucket = "ok" /\ s3_last = None
    /\ s3_calls = 0
OthersIdle == RetentionIdle /\ ServiceIdle /\ S3Idle
LoaderIdle ==
    /\ l_pc = "idle" /\ l_path = None /\ l_csv = [header |-> <<>>, rows |-> <<>>] /\ l_arg = None
    /\ l_df = <<>> /\ l_schemas = None /\ l_i = 1 /\ l_table = None /\ l_steps = <<>>
    /\ l_err = "none" /\ ag = NoRun

\* a transform called on one Table, and the caller's later changes to the result
StartTransform == InitTransform /\ CacheIdle /\ ConcIdle /\ LoaderIdle /\ SingleIdle /\ OthersIdle
SpecTransform == StartTransform /\ [][NextTransform]_vars

\* one caller at a time on a TableCache
StartCache == InitCache /\ TransformIdle /\ ConcIdle /\ LoaderIdle /\ SingleIdle /\ OthersIdle
SpecCache == StartCache /\ [][NextCache]_vars

\* several callers at once on a TableCache, each call taken statement by statement
StartConc == InitConc /\ TransformIdle /\ LoaderIdle /\ SingleIdle /\ OthersIdle
SpecCacheConc == StartConc /\ [][NextConc]_vars

\* one load of a CSV, with or without a schema, and the agent's run inside it
StartLoader == InitLoader /\ TransformIdle /\ CacheIdle /\ ConcIdle /\ SingleIdle /\ OthersIdle
SpecLoader == StartLoader /\ [][NextLoader]_vars

\* a standard transform constructed and called once on a table of sales
StartStandard ==
    /\ InitStandard /\ TransformIdle /\ CacheIdle /\ ConcIdle /\ LoaderIdle /\ OthersIdle
SpecStandard == StartStandard /\ [][NextSingle]_vars

\* puts and gets, one caller at a time, with every put remembered
StartRetention ==
    /\ InitRetention /\ TransformIdle /\ ConcIdle /\ LoaderIdle /\ SingleIdle
    /\ ServiceIdle /\ S3Idle
SpecRetention == StartRetention /\ [][NextRetention]_vars

\* one client of the service: a file loaded, then analyses of it
StartService ==
    /\ InitService /\ TransformIdle /\ ConcIdle /\ LoaderIdle /\ SingleIdle
    /\ RetentionIdle /\ S3Idle
SpecService == StartService /\ [][NextService]_vars

\* the service's S3 client over a run of calls, the bucket changing under it
StartS3 ==
    /\ InitS3 /\ TransformIdle /\ CacheIdle /\ ConcIdle /\ LoaderIdle /\ SingleIdle
    /\ RetentionIdle /\ ServiceIdle
SpecS3 == StartS3 /\ [][NextS3]_vars

\* a formatting transform constructed and called once
StartFormatting ==
    /\ InitFormatting /\ TransformIdle /\ CacheIdle /\ ConcIdle /\ LoaderIdle /\ OthersIdle
SpecFormatting == StartFormatting /\ [][NextSingle]_vars

\* ------------------------------------------------------------------ claims
InputNow == [name |-> tables[t_in].name, data |-> frames[tables[t_in].data]]

\* C1: a call T(t) leaves t as it was (name, columns, order, types, shape, values),
\* whether it returns or raises, and the returned Table is another object with
\* another DataFrame object, so that changing it later does not change t.
C1_InputNeverMutated ==
    /\ InputNow = t_orig
    /\ t_call.status = "ok" =>
         /\ t_call.result # t_in
         /\ tables[t_call.result].data # tables[t_in].data

C1_Witness ==
    /\ t_call.status = "ok"
    /\ t_mods > 0
    /\ DataOf(Heap, t_call.result) # t_orig.data
    /\ ~is_empty(t_orig.data)

\* C2: a call on a Table with zero rows or zero columns raises the precondition
\* error whatever the transform and its parameters, and no copy has been made.
C2_EmptyFailsFirst ==
    (t_call.status # "none" /\ (Len(t_orig.data) = 0 \/ Height(t_orig.data) = 0)) =>
        /\ t_call.status = "error"
        /\ t_call.err = PreconditionError
        /\ Len(tables) = t_call.ntables
        /\ Len(frames) = t_call.nframes

C2_Witness ==
    /\ t_call.T.cls = "FilterTransform"
    /\ t_call.T.column = "missing"
    /\ Len(t_orig.data) > 0 /\ Height(t_orig.data) = 0
    /\ t_call.err = PreconditionError

\* C3: the number of stored entries never exceeds max_size, for any max_size >= 0.
C3_CapacityBounded == Len(cache) <= max_size

\* the entries of c (as stored: key, table, timestamp, number) that d no longer holds
Removed(c, d) == {i \in 1..Len(c) : \A j \in 1..Len(d) : d[j] # c[i]}

\* the entries of c whose table get() no longer returns from d under their key
Gone(c, d) == {i \in 1..Len(c) : get(d, c[i].key).ret # c[i].table}

\* C4 (its first sentence, for max_size >= 1): a put on a full cache removes exactly
\* one entry, the one inserted earliest, and every other entry is still retrievable.
\* "Removed" is read either way: the stored entry is gone, or its table is no
\* longer what get() returns.
C4_FullPutRemovesOnlyOldest ==
    (c_last.op = "put" /\ max_size >= 1 /\ Len(c_last.before) >= max_size) =>
        \E i \in 1..Len(c_last.before) :
            /\ \/ Removed(c_last.before, cache) = {i}
               \/ Gone(c_last.before, cache) = {i}
            /\ \A m \in 1..Len(c_last.before) : c_last.before[i].n <= c_last.before[m].n

IsGeneratedKey(key, table) ==
    /\ Len(key) = Len(table.name) + 1 + 12
    /\ SubSeq(key, 1, Len(table.name)) = table.name
    /\ key[Len(table.name) + 1] = ":"
    /\ \A i \in (Len(table.name) + 2)..Len(key) : key[i] \in HexChars

\* C6: put returns the key it stored under (the supplied one, else
\* <table-name>:<12 hex chars>), a get of that key right after yields that table,
\* a get of a key that is not stored yields None, and get changes nothing.
C6_PutGetRoundTrip ==
    /\ c_last.op = "put" =>
         /\ IF c_last.arg = None
            THEN IsGeneratedKey(c_last.ret, c_last.table)
            ELSE c_last.ret = c_last.arg.v
         /\ get(cache, c_last.ret).ret = c_last.table
         /\ get(cache, c_last.ret).cache = cache
    /\ c_last.op = "get" =>
         /\ cache = c_last.before
         /\ (c_last.ret = None) <=> (c_last.key \notin Keys(c_last.before))
         /\ c_last.key \in Keys(c_last.before) =>
              c_last.ret = c_last.before[KeyIndex(c_last.before, c_last.key)].table

\* C5: under any interleaving of put and get calls no call fails and the cache
\* never holds more than max_size entries.
C5_InterleavingSafe ==
    /\ errors = {}
    /\ Len(cache) <= max_size

C6_Witness ==
    /\ c_last.op = "get"
    /\ c_last.ret # None
    /\ c_last.key \in GeneratedKeys
    /\ Len(cache) >= 2

\* C7: a schema the oracle proposed is in use by the Loader only after a dry run of
\* ColumnSchemaTransform against it has succeeded in the agent's run; a schema
\* whose dry run fails is never in use.
C7_AcceptedOnlyAfterDryRun ==
    (ag.state = "finished" /\ l_schemas # None) =>
        /\ l_schemas.v \in ag.passed
        /\ is_data_parseable(ag.frame, l_schemas.v).ok

\* C8 as stated: the oracle is re-asked at most 3 times after failed dry runs.
C8_AtMostThreeReasks == ag.reasks <= Retries

OracleErrors == {"UnexpectedModelBehavior", "UsageLimitExceeded"}

RetryBudget ==
    /\ l_pc = "oracle" =>
         /\ ag.retries <= Retries /\ ag.requests <= RequestLimit
         /\ ENABLED NextLoader
    /\ ag.feedback # None =>
         /\ ag.retries >= 1
         /\ is_data_parseable(ag.frame, ag.feedback.schema) =
                [ok |-> FALSE, column |-> ag.feedback.column, error |-> ag.feedback.error]
         /\ \E i \in 1..Len(ag.feedback.schema) :
                ag.feedback.schema[i].name = ag.feedback.column
    /\ ag.retries > Retries => ag.state = "exhausted"
    /\ ag.state \in {"exhausted", "limit"} =>
         /\ l_pc = "failed" /\ l_err \in OracleErrors /\ l_table = None
         /\ ~ENABLED NextLoader

\* a step taken while the oracle is being asked ends the asking or uses one request
OracleProgress ==
    l_pc = "oracle" =>
        \/ l_pc' \in {"format", "failed"}
        \/ l_pc' = "oracle" /\ ag'.requests = ag.requests + 1

\* C8, amended: schema inference terminates: while the oracle is being asked a step
\* is always possible, and each step ends the asking or uses one of at most
\* RequestLimit requests. A failed dry run is sent back with the failing column and
\* the error; at most 3 dry runs fail in a row while the run goes on (a passing dry
\* run restarts the count); a run that uses up either budget fails the load for
\* good with an oracle error and no Table.
C8_RetryBudget == [](RetryBudget) /\ [][OracleProgress]_vars

C8_Witness ==
    /\ ag.state = "exhausted"
    /\ ag.retries = Retries + 1
    /\ l_err = "UnexpectedModelBehavior"

\* C9: without a schema the oracle is invoked on 100 sampled rows of a table of at
\* least 100 rows and on the whole table of a smaller one; the load does not fail
\* at the sampling step.
C9_SampleOrWholeTable ==
    (Falsy(l_arg) /\ Len(l_steps) >= 2 /\ l_pc # "sample") =>
        /\ ag.state # "idle"
        /\ Height(ag.frame) = IF Height(l_steps[2].out) >= SampleSize THEN SampleSize
                              ELSE Height(l_steps[2].out)
        /\ l_err # "ShapeError"

ExpectedSteps ==
    <<"read", "strip">> \o (IF Falsy(l_arg) THEN <<"oracle">> ELSE <<>>)
    \o <<"ColumnSchemaTransform", "FusePartialDatetimeColumnsTransform",
         "StringToCategoricalTransform", "DefaultColumnSortingTransform">>

\* C10: the steps of a load are a prefix of read, strip, oracle (only without a
\* schema), ColumnSchemaTransform, FusePartialDatetimeColumnsTransform,
\* StringToCategoricalTransform, DefaultColumnSortingTransform; each works on the
\* output of the one before; a failed step is the last one, nothing runs after it
\* and no Table is returned; a Table is returned only after all of them.
C10_FixedStepOrder ==
    /\ Len(l_steps) <= Len(ExpectedSteps)
    /\ \A i \in 1..Len(l_steps) :
         /\ l_steps[i].step = ExpectedSteps[i]
         /\ i > 1 => l_steps[i].in = l_steps[i - 1].out
         /\ ~l_steps[i].ok => i = Len(l_steps) /\ l_pc = "failed"
    /\ l_pc = "failed" =>
         /\ l_table = None
         /\ IF l_steps = <<>> THEN l_path # None /\ load_csv_checks(l_path) # "none"
            ELSE ~l_steps[Len(l_steps)].ok
         /\ ~ENABLED NextLoader
    /\ l_table # None =>
         /\ l_pc = "done"
         /\ Len(l_steps) = Len(ExpectedSteps)
         /\ l_table.data = l_steps[Len(l_steps)].out
    /\ l_pc = "done" => l_table # None

C10_Witness ==
    /\ l_pc = "done"
    /\ Falsy(l_arg)
    /\ Len(l_steps) = 7
    /\ Columns(l_table.data) = <<"Date", "qty">>
    /\ Height(l_table.data) > SampleSize

\* ------------------------------------------------------------------ C11
\* the extensions that read .csv whatever the case of their letters
CsvExtensions == {<<".", "c", "s", "v">>, <<".", "C", "S", "V">>}
\* the load ended on the path alone: nothing was read, the agent never ran
EndedOnPath(err) ==
    /\ l_pc = "failed" /\ l_err = err
    /\ l_steps = <<>> /\ l_df = <<>> /\ ag = NoRun /\ l_table = None

\* C11: load_csv on a path that does not exist fails with FileNotFoundError,
\* whatever the extension; on a path that exists without a .csv extension
\* (letters in any case) it fails with ValueError; either way before the file
\* is read and before the agent runs. A path that passes both goes on to the read.
C11_PathChecksFirst ==
    (l_path # None /\ l_pc # "call") =>
        /\ ~l_path.exists => EndedOnPath("FileNotFoundError")
        /\ (l_path.exists /\ suffix(l_path.name) \notin CsvExtensions)
              => EndedOnPath("ValueError")
        /\ (l_path.exists /\ suffix(l_path.name) \in CsvExtensions)
              => (l_pc = "open" \/ l_steps # <<>>)

\* a missing path without the .csv extension has been reported as not found
C11_Witness ==
    /\ l_path # None /\ ~l_path.exists /\ suffix(l_path.name) \notin CsvExtensions
    /\ EndedOnPath("FileNotFoundError")

\* ------------------------------------------------------------------ C12, C13, C14
HasDtype(f, name, dtypes) == \E i \in 1..Len(f) : f[i].name = name /\ f[i].dtype \in dtypes
\* `on` is a measure and every `by` a dimension of the table
MeasureAndDimensions ==
    /\ HasDtype(s_in, s_T.on, {"Int64", "Float64"})
    /\ \A i \in 1..Len(s_T.by) :
          HasDtype(s_in, s_T.by[i], {"Categorical", "String", "Datetime"})
ConcentrationDone == s_pc = "done" /\ s_T.cls = "ConcentrationAnalysisTransform"
\* ... with as many labels as breaks, at least one, every break within [0, 1]
WellFormedCall ==
    /\ MeasureAndDimensions
    /\ Len(s_T.breaks) > 0 /\ Len(s_T.breaks) = Len(s_T.labels)
    /\ \A j \in 1..Len(s_T.breaks) :
          0 <= s_T.breaks[j].num /\ s_T.breaks[j].num <= s_T.breaks[j].den
Out == DataOf(s_out.heap, s_out.result)
Partitions == {s_in[1].vals[r] : r \in 1..Height(s_in)}
RowsOf(p) == {r \in 1..Height(s_in) : s_in[1].vals[r] = p}
\* the rows of p whose value lies above p's b-quantile
AboveQuantile(p, b) ==
    {r \in RowsOf(p) :
        s_in[2].vals[r].v * b.den
            > quantile(PartitionValues(s_in, <<"k">>, "rev", CHOOSE x \in RowsOf(p) : TRUE), b)}
RowsLabelled(label) ==
    {r \in 1..Height(Out) : Out[ColIndex(Out, "Concentration")].vals[r] = StrV(label)}
CellOf(label, column) ==
    IF column \notin ColumnSet(Out) \/ RowsLabelled(label) = {} THEN None
    ELSE Out[ColIndex(Out, column)].vals[CHOOSE r \in RowsLabelled(label) : TRUE]

\* C12: for every partition p and every pair (break b, label l), the cell of row
\* l in column p is the sum of `on` over the rows of p whose value lies above p's
\* b-quantile, and the cell of row 'Total' is the sum of `on` over all rows of p.
C12_CellIsSumAbove ==
    (ConcentrationDone /\ WellFormedCall /\ s_in[1].dtype = "String") =>
        /\ s_out.status = "ok"
        /\ \A p \in Partitions :
              /\ \A j \in 1..Len(s_T.breaks) :
                    CellOf(s_T.labels[j], p.v)
                        = IntV(sum(s_in[2].vals, AboveQuantile(p, s_T.breaks[j])))
              /\ CellOf("Total", p.v) = IntV(sum(s_in[2].vals, RowsOf(p)))

\* C13: on a non-empty table, with `on` a measure, every `by` a dimension and
\* breaks and labels not empty, the call succeeds and its output has exactly one
\* row per (break, label) pair, exactly one row 'Total', and one column per
\* distinct combination of `by` values, whatever the data.
C13_OneRowPerBreakOneColumnPerPartition ==
    (ConcentrationDone /\ WellFormedCall) =>
        /\ s_out.status = "ok"
        /\ \A j \in 1..Len(s_T.breaks) : Cardinality(RowsLabelled(s_T.labels[j])) = 1
        /\ Cardinality(RowsLabelled("Total")) = 1
        /\ Height(Out) = Len(s_T.breaks) + 1
        /\ Len(Out) = 1 + Cardinality(Partitions)

\* C14: when `on` is not numeric or some `by` is not a dimension, the call fails
\* with the validation's error, whatever the breaks (nothing is computed per
\* break before it), no Table is returned and the input Table is as it was.
C14_ValidationFirst ==
    (ConcentrationDone /\ ~MeasureAndDimensions) =>
        /\ s_out.status = "error" /\ s_out.result = 0
        /\ s_out.err \in {"ValueError: Measure", "ValueError: Dimension"}
        /\ DataOf(s_out.heap, 1) = s_in
        /\ s_out.heap.tables[1] = [name |-> "sales", data |-> 1]

\* a call with a measure among its `by` and a break no QuantileLabelTransform
\* accepts has failed on the dimension
C14_Witness ==
    /\ ConcentrationDone
    /\ s_T.on = "rev" /\ s_T.by = <<"k", "rev">> /\ s_T.breaks = <<Frac(3, 2)>>
    /\ s_out.status = "error" /\ s_out.err = "ValueError: Dimension"

\* ------------------------------------------------------------------ C19
BreakOutside(b) == b.num < 0 \/ b.num > b.den
\* C19: a QuantileLabelTransform is rejected at construction exactly when the
\* number of its breaks is not the number of its labels minus one or some break
\* lies outside [0, 1]; every other configuration is constructed.
C19_BreaksValidated ==
    (s_T # None /\ s_T.cls = "QuantileLabelTransform" /\ s_pc # "new") =>
        /\ s_pc = "rejected" <=>
              \/ Len(s_T.breaks) # Len(s_T.labels) - 1
              \/ \E j \in 1..Len(s_T.breaks) : BreakOutside(s_T.breaks[j])
        /\ s_pc = "rejected" => s_out = NoResult

\* two breaks for three labels, one of them above 1: rejected
C19_Witness ==
    /\ s_T # None /\ s_T.cls = "QuantileLabelTransform" /\ s_pc = "rejected"
    /\ Len(s_T.labels) = 3 /\ Len(s_T.breaks) = 2
    /\ s_T.breaks[1] = Frac(1, 2) /\ s_T.breaks[2] = Frac(3, 2)

\* ------------------------------------------------------------------ C15 .. C18, C20
Done(cls) == s_pc = "done" /\ s_T.cls = cls
Succeeded(cls) == Done(cls) /\ s_out.status = "ok"
SchemaNames == [i \in 1..Len(s_T.column_schemas) |-> s_T.column_schemas[i].name]

\* C15: the output of ColumnSchemaTransform holds exactly the columns the schema
\* list names, in the order of the list (unlisted input columns are gone), and the
\* call fails, returning no Table, when a schema names a column the input lacks.
C15_SchemaColumnsInOrder ==
    Done("ColumnSchemaTransform") =>
        /\ s_out.status = "ok" => Columns(Out) = SchemaNames
        /\ (\E i \in 1..Len(SchemaNames) : SchemaNames[i] \notin ColumnSet(s_in))
              => s_out.status = "error" /\ s_out.result = 0

\* two schemas in the order yr, qty on a frame of qty, yr
C15_Witness ==
    /\ Succeeded("ColumnSchemaTransform")
    /\ Columns(s_in) = <<"qty", "yr">> /\ Columns(Out) = <<"yr", "qty">>

\* the groups of the schema list: parent names, and the part columns of a parent
PartEntries ==
    {i \in 1..Len(s_T.column_schemas) : s_T.column_schemas[i].partial_datetime_schema # None}
GroupParents ==
    {s_T.column_schemas[i].partial_datetime_schema.parent_column_name : i \in PartEntries}
GroupParts(parent) ==
    {s_T.column_schemas[i].name :
        i \in {x \in PartEntries :
                 s_T.column_schemas[x].partial_datetime_schema.parent_column_name = parent}}

\* C16: after FusePartialDatetimeColumnsTransform every group of schemas sharing
\* a parent_column_name has exactly one date-time column of that name in the
\* output, none of the group's part columns remains, and the columns outside all
\* groups are as they were.
C16_OneCompositePerGroup ==
    Succeeded("FusePartialDatetimeColumnsTransform") =>
        /\ \A parent \in GroupParents :
              /\ Cardinality({i \in 1..Len(Out) : Out[i].name = parent}) = 1
              /\ HasDtype(Out, parent, {"Datetime"})
              /\ \A c \in GroupParts(parent) \ {parent} : c \notin ColumnSet(Out)
        /\ \A i \in 1..Len(s_in) :
              (\A parent \in GroupParents :
                   s_in[i].name # parent /\ s_in[i].name \notin GroupParts(parent))
                => \E j \in 1..Len(Out) : Out[j] = s_in[i]

\* the values of a column that are not null
NonNull(col) == {r \in 1..Len(col.vals) : col.vals[r].k # "null"}
DistinctCount(col) == Cardinality({col.vals[r] : r \in NonNull(col)})
\* C17: StringToCategoricalTransform makes a text column categorical exactly when
\* min_unique <= distinct_count <= max_unique and distinct_count /
\* total_non_null_count <= uniqueness_threshold; other text columns stay text,
\* and columns that are not text are as they were.
C17_ReclassifiedIffLowUniqueness ==
    Done("StringToCategoricalTransform") =>
        /\ s_out.status = "ok"
        /\ Columns(Out) = Columns(s_in)
        /\ \A i \in 1..Len(s_in) :
              IF s_in[i].dtype # "String" THEN Out[i] = s_in[i]
              ELSE /\ Out[i].vals = s_in[i].vals
                   /\ Out[i].dtype =
                        IF /\ s_T.min_unique <= DistinctCount(s_in[i])
                           /\ DistinctCount(s_in[i]) <= s_T.max_unique
                           /\ Cardinality(NonNull(s_in[i])) > 0
                           /\ DistinctCount(s_in[i]) * s_T.uniqueness_threshold.den
                                <= s_T.uniqueness_threshold.num * Cardinality(NonNull(s_in[i]))
                        THEN "Categorical" ELSE "String"

GroupOf(dtype) ==
    CASE dtype = "Datetime" -> 1
      [] dtype \in {"Categorical", "String"} -> 2
      [] dtype \in {"Int64", "Float64"} -> 3
      [] OTHER -> 4
NamePos(n) == CHOOSE k \in 1..Len(NameOrder) : NameOrder[k] = n
\* C18: the output of DefaultColumnSortingTransform lists all date-time columns,
\* then all categorical and text columns together, then all numeric columns, each
\* of the three runs ascending by name (the order in which strings compare).
C18_GroupsThenNames ==
    Succeeded("DefaultColumnSortingTransform") =>
        /\ \A i, j \in 1..Len(Out) : i < j =>
              \/ GroupOf(Out[i].dtype) < GroupOf(Out[j].dtype)
              \/ /\ GroupOf(Out[i].dtype) = GroupOf(Out[j].dtype)
                 /\ NamePos(Out[i].name) < NamePos(Out[j].name)
        /\ \A i \in 1..Len(s_in) :
              GroupOf(s_in[i].dtype) \in 1..3 => \E j \in 1..Len(Out) : Out[j] = s_in[i]

\* a categorical column, a text column and a date-time column, put in order
C18_Witness ==
    /\ Succeeded("DefaultColumnSortingTransform")
    /\ Columns(s_in) = <<"name", "ghost", "Date">>
    /\ Columns(Out) = <<"Date", "ghost", "name">>

\* C20: DefaultColumnSortingTransform only reorders: whatever the types of the
\* input's columns, boolean ones included, the output has the same columns, each
\* with its type and values; none is dropped, none added.
C20_PureReordering ==
    Done("DefaultColumnSortingTransform") =>
        /\ s_out.status = "ok"
        /\ {Out[j] : j \in 1..Len(Out)} = {s_in[i] : i \in 1..Len(s_in)}
        /\ Len(Out) = Len(s_in)

\* ------------------------------------------------------------------ C21, C22
PartColumn(i) == s_T.column_schemas[i].name
PartOf(i) == s_T.column_schemas[i].partial_datetime_schema.part
Present(i) == PartColumn(i) \in ColumnSet(s_in)
ColumnNamed(f, name) == f[ColIndex(f, name)]
EveryGroupHasYear ==
    \A parent \in GroupParents :
        \E i \in PartEntries :
            /\ s_T.column_schemas[i].partial_datetime_schema.parent_column_name = parent
            /\ PartOf(i) = "year"
\* the whole numbers of a part column are numbers a date can hold
InRange(i) ==
    \A r \in 1..Height(s_in) :
        LET c == ColumnNamed(s_in, PartColumn(i)).vals[r]
        IN  c.k = "int" => (PartOf(i) = "month" => c.v \in 1..12) /\ c.v \in 1..9999
\* the month of the first row of the composite column `parent`
MonthOf(parent) == ColumnNamed(Out, parent).vals[1].v.month

\* C21: when a schema names a month (day, hour, ...) column the table lacks,
\* FusePartialDatetimeColumnsTransform takes the part's default (month 1) and
\* succeeds: with every year column there as whole numbers, the call returns a
\* Table whose composite column has month 1.
C21_AbsentPartDefaults ==
    ( /\ Done("FusePartialDatetimeColumnsTransform")
      /\ EveryGroupHasYear
      /\ \A i \in PartEntries :
            /\ PartOf(i) = "year" => Present(i)
            /\ Present(i) => HasDtype(s_in, PartColumn(i), {"Int64"}) /\ InRange(i)
      /\ \E i \in PartEntries : ~Present(i) )
    => /\ s_out.status = "ok"
       /\ \A i \in PartEntries :
             ~Present(i) /\ PartOf(i) = "month"
               => MonthOf(s_T.column_schemas[i].partial_datetime_schema.parent_column_name) = 1

\* C22: FusePartialDatetimeColumnsTransform does not fail on part columns of
\* whole numbers, floating-point numbers or text: with every named part column
\* in the table, of one of these types, and a year in every group, the call
\* returns a Table.
C22_NumericOrTextParts ==
    ( /\ Done("FusePartialDatetimeColumnsTransform")
      /\ EveryGroupHasYear
      /\ \A i \in PartEntries :
            /\ Present(i)
            /\ HasDtype(s_in, PartColumn(i), {"Int64", "Float64", "String"})
            /\ InRange(i) )
    => s_out.status = "ok"

\* ------------------------------------------------------------------ C23, C24, C29, C30
CodePoint(c) ==
    CASE c = " " -> 32 [] c = "%" -> 37 [] c = "0" -> 48 [] c = "1" -> 49 [] c = "2" -> 50
      [] c = "5" -> 53 [] c = "T" -> 84 [] c = "a" -> 97 [] c = "l" -> 108 [] c = "o" -> 111
      [] c = "p" -> 112 [] c = "t" -> 116
Text(label) ==
    CASE label = "Top 10%" -> <<"T", "o", "p", " ", "1", "0", "%">>
      [] label = "Top 20%" -> <<"T", "o", "p", " ", "2", "0", "%">>
      [] label = "Top 50%" -> <<"T", "o", "p", " ", "5", "0", "%">>
      [] label = "Total" -> <<"T", "o", "t", "a", "l">>
\* a comes before b as text: at the first place where they differ a has the
\* smaller character, or a ends there
TextLess(a, b) ==
    \E i \in 1..Len(b) :
        /\ \A j \in 1..(i - 1) : j <= Len(a) /\ a[j] = b[j]
        /\ i > Len(a) \/ CodePoint(a[i]) < CodePoint(b[i])
LabelsOut == [r \in 1..Height(Out) |-> ColumnNamed(Out, "Concentration").vals[r].v]
Pairs == IF Len(s_T.breaks) < Len(s_T.labels) THEN Len(s_T.breaks) ELSE Len(s_T.labels)

\* C23: the rows of a ConcentrationAnalysisTransform result stand in the order
\* of their labels compared as text, each label before the next, whatever the
\* order of the breaks: 'Top 10%', 'Top 20%', 'Top 50%', 'Total'.
C23_RowsInTextOrder ==
    (Succeeded("ConcentrationAnalysisTransform") /\ Pairs > 0) =>
        \A r \in 1..(Height(Out) - 1) : TextLess(Text(LabelsOut[r]), Text(LabelsOut[r + 1]))

\* breaks given as 0.5, 0.9: the rows are Top 10%, Top 50%, Total
C23_Witness ==
    /\ Succeeded("ConcentrationAnalysisTransform")
    /\ s_T.breaks = <<Frac(1, 2), Frac(9, 10)>> /\ s_T.labels = <<"Top 50%", "Top 10%">>
    /\ LabelsOut = <<"Top 10%", "Top 50%", "Total">>

\* C24: with empty breaks and labels, on a table of which `on` is a measure and
\* every `by` a dimension, ConcentrationAnalysisTransform returns a Table whose
\* data is the input's data: no label column, no pivot, no row 'Total'.
C24_EmptyListsUnchanged ==
    (ConcentrationDone /\ s_T.breaks = <<>> /\ s_T.labels = <<>> /\ MeasureAndDimensions) =>
        s_out.status = "ok" /\ Out = s_in

\* a table of three rows has come back as it went in
C24_Witness ==
    /\ ConcentrationDone /\ s_T.breaks = <<>> /\ s_T.labels = <<>>
    /\ Height(s_in) = 3 /\ s_out.status = "ok" /\ Out = s_in
    /\ "Concentration" \notin ColumnSet(Out)

\* a cell as a number, a missing or null cell counting as 0
Num(c) == IF c.k = "int" THEN c.v ELSE 0
NonNegative ==
    \A r \in 1..Height(s_in) :
        LET c == ColumnNamed(s_in, s_T.on).vals[r] IN c.k = "int" => c.v >= 0
PartitionColumns == ColumnSet(Out) \ {"Concentration"}

\* C29: when no `on` value is negative, in every partition column of the result
\* the cell of a higher break is at most the cell of a lower break, and every
\* per-break cell is at most the cell of 'Total' (a missing or null cell is 0).
C29_Monotone ==
    (Succeeded("ConcentrationAnalysisTransform") /\ Pairs > 0 /\ NonNegative) =>
        \A p \in PartitionColumns :
            /\ \A i, j \in 1..Pairs :
                  s_T.breaks[i].num * s_T.breaks[j].den < s_T.breaks[j].num * s_T.breaks[i].den
                    => Num(CellOf(s_T.labels[j], p)) <= Num(CellOf(s_T.labels[i], p))
            /\ \A i \in 1..Pairs : Num(CellOf(s_T.labels[i], p)) <= Num(CellOf("Total", p))

\* values 1, 2, 3, 4 of one partition: Top 10% is 4, Top 50% is 7, Total is 10
C29_Witness ==
    /\ Succeeded("ConcentrationAnalysisTransform") /\ NonNegative
    /\ s_T.breaks = <<Frac(1, 2), Frac(9, 10)>>
    /\ \E p \in PartitionColumns :
          /\ 0 < Num(CellOf("Top 10%", p))
          /\ Num(CellOf("Top 10%", p)) < Num(CellOf("Top 50%", p))
          /\ Num(CellOf("Top 50%", p)) < Num(CellOf("Total", p))

\* the call with both lists cut to the length of the shorter one
Truncated ==
    [s_T EXCEPT !.breaks = SubSeq(@, 1, Pairs), !.labels = SubSeq(@, 1, Pairs)]

\* C30: breaks and labels are paired by position and the surplus of the longer
\* list is ignored: a call with lists of two lengths ends as the call with both
\* cut to the shorter length ends; when it succeeds the output has one row per
\* pair and the row 'Total', and with an empty list it is the input's data.
C30_SurplusIgnored ==
    (ConcentrationDone /\ Len(s_T.breaks) # Len(s_T.labels)) =>
        /\ s_out = BaseTransform_call(Truncated, TableOn("sales", s_in), 1)
        /\ (s_out.status = "ok" /\ Pairs > 0) =>
              /\ Height(Out) = Pairs + 1
              /\ \A j \in 1..Pairs : Cardinality(RowsLabelled(s_T.labels[j])) = 1
              /\ Cardinality(RowsLabelled("Total")) = 1
        /\ (MeasureAndDimensions /\ Pairs = 0) => s_out.status = "ok" /\ Out = s_in

\* two labels and one break: the rows are Top 50% and Total
C30_Witness ==
    /\ Succeeded("ConcentrationAnalysisTransform")
    /\ Len(s_T.labels) = 2 /\ Len(s_T.breaks) = 1
    /\ LabelsOut = <<"Top 50%", "Total">>

\* ------------------------------------------------------------------ C27
\* the puts after the p-th one
Later(p) == (p + 1)..Len(r_puts)

\* C27: on a cache of max_size >= 1, the table stored by a put is what get
\* returns for its key as long as fewer than max_size puts, none of them to that
\* key, have followed it.
C27_KeptBelowCapacity ==
    \A p \in 1..Len(r_puts) :
        ( /\ Len(r_puts) - p < max_size
          /\ \A q \in Later(p) : r_puts[q].key # r_puts[p].key )
        => get(cache, r_puts[p].key).ret = r_puts[p].table

\* ------------------------------------------------------------------ C25, C28
SourceOf(key) == get(cache, key).ret
Answered(req) == api_last # None /\ api_last.req = req

\* C25: once /files has answered cache_key k, the source table stays stored
\* under k whatever number of analyses of k succeed (each caches its result
\* under a key of its own), and no analysis of k is answered 404.
C25_SourceStaysCached ==
    api_key # None =>
        /\ SourceOf(api_key.v) \in SourceTables
        /\ (Answered("concentration") /\ api_last.cache_key = api_key.v)
              => api_last.status # 404

\* the transform of the last request raises on the table stored under its key
Raises ==
    BaseTransform_call(RequestTransform(api_last),
                       TableOn("table", get(api_last.before, api_last.cache_key).ret.data),
                       1).status # "ok"

\* C28: a /analyses/concentration request on a key the cache does not hold is
\* answered 404 without a transform being called, one whose transform raises
\* is answered 500, a request answered 404 or 500 leaves the cache exactly as it
\* was, and only a request answered 200 adds an entry (under the key it answers).
C28_FailureLeavesCache ==
    Answered("concentration") =>
        /\ api_last.cache_key \notin Keys(api_last.before)
              => api_last.status = 404 /\ ~api_last.ran
        /\ api_last.cache_key \in Keys(api_last.before)
              => api_last.ran /\ api_last.status = (IF Raises THEN 500 ELSE 200)
        /\ api_last.status \in {404, 500} => cache = api_last.before
        /\ api_last.status = 200 =>
              /\ api_last.key.v \notin Keys(api_last.before)
              /\ api_last.key.v \in Keys(cache)

\* an analysis that raised (`on` is the text column) after two tables were cached
C28_Witness ==
    /\ Answered("concentration") /\ api_last.status = 500 /\ api_last.ran
    /\ Len(api_last.before) >= 2 /\ cache = api_last.before

\* ------------------------------------------------------------------ C26
Called(fn) == s3_last # None /\ s3_last.fn = fn

\* C26: get_s3_client returns no client whose bucket check failed: a call in
\* which head_bucket raises ends in RuntimeError and leaves _s3_client unset, so
\* that the next call checks the bucket again.
C26_NoUncheckedClient ==
    Called("get_s3_client") =>
        /\ s3_last.ret # None => s3_last.ret.checked
        /\ s3_last.exc # "none" => s3_last.exc = "RuntimeError" /\ s3_client = None

====
